---- MODULE Spec2Model ----
(***************************************************************************)
(* A model of esputil (src/esputil.c): the SLIP frame codec, the serial    *)
(* command loop cmd(), chip_connect()/chip_detect() and the flash session. *)
(* Bytes are integers 0..255, buffers are 1-indexed sequences (C index k   *)
(* is TLA+ index k+1).                                                     *)
(***************************************************************************)
EXTENDS Integers, Sequences, FiniteSets, TLC

VARIABLES
  pc,      \* position of the program (which blocking point / which exit)
  slip,    \* struct slip: [buf, size, len, mode, prev]
  input,   \* the byte sequence handed to slip_send (codec runs)
  wire,    \* bytes written by the peer and not yet read from the serial fd
  pkts,    \* packets reported so far by slip_recv (non-zero return values)
  chip,    \* ctx->chip: the current chip descriptor [id, name, bla]
  cst,     \* cmd(): "idle" (not running), "wait" (in its read loop), "ret"
  cop,     \* cmd(): the opcode of the pending request
  cret,    \* cmd(): the value returned by the last call
  frames,  \* cmd(): the frames assembled (r > 0) during the current call
  taken,   \* cmd(): the frame the current call took as its response, or <<>>
  trace,   \* the program's serial I/O in order: requests sent, results of
           \* cmd(), control line changes, sleeps, flushes
  err,     \* the diagnostic of fail(), "" while the program has not failed
  closed,  \* the serial line has been closed by the peer (reads return 0)
  nsent,   \* how many times the peer has written to the line
  optChip, \* the NAME given with -chip on the command line, "" if none
  platform,\* the build: "unix" or "win32"
  count,   \* reset_strategy(): its static call counter
  j,       \* chip_connect(): the reset round
  i,       \* chip_connect(): the SYNC attempt within the round
  baud,    \* ctx->baud: the -b option, "115200" by default
  fpar,    \* ctx->fpar: the -fp option, "" if none (NULL)
  command, \* main(): the words after "flash" on the command line
  args,    \* flash(): the words the argument loop has not consumed
  flist,   \* flash(): the unhexed files of the current .hex not yet flashed
  flash_params, \* flash(): the 16-bit flash parameters
  flash_offset, \* flashbin(): the target offset of the file being flashed
  fp,      \* flashbin(): the bytes of the open file not yet read
  seq,     \* flashbin(): the sequence number of the next block
  s_signo, \* the process-wide signal flag, 0 while no signal was recorded
  sock,    \* ctx->sock: the UDP socket, -1 if socket() failed
  kin,     \* bytes waiting on standard input
  sockin,  \* datagrams waiting on the UDP socket
  stdout,  \* the bytes written to standard output
  dgrams,  \* the datagrams sent on the UDP socket
  uart,    \* the bytes written to the serial line by uart_tx
  disk,    \* unhex(): the files created so far and the state of its loop
  elf,     \* mkbin(): the ELF file read: [class, e_entry, phdrs]
  bin      \* mkbin(): the bytes of the image file written

vars == <<pc, slip, input, wire, pkts, chip, cst, cop, cret, frames, taken,
          trace, err, closed, nsent, optChip, platform, count, j, i,
          baud, fpar, command, args, flist, flash_params, flash_offset, fp, seq,
          s_signo, sock, kin, sockin, stdout, dgrams, uart, disk, elf, bin>>

codecVars == <<input, pkts>>
cmdVars == <<cst, cop, cret, frames, taken>>
connVars == <<optChip, platform, count, j, i>>
flashVars == <<baud, fpar, command, args, flist, flash_params, flash_offset, fp, seq>>
binVars == <<elf, bin>>
monVars == <<s_signo, sock, kin, sockin, stdout, dgrams, uart>>

\* ------------------------------------------------------------------ bounds
MaxLen == 3        \* longest byte sequence handed to the encoder
MaxSlipSize == 4   \* largest decoder buffer capacity of a codec run
SlipBufSize == 32  \* decoder buffer capacity of a session (32 KiB, scaled)
MaxDevSends == 2   \* how many times the peer writes during a cmd() run
MaxBadAnswers == 1 \* how many requests of a session the peer answers with an error
BlockSize == 4     \* block_size of flashbin() (4096, scaled)
MaxMonLen == 4     \* how many bytes a monitored device writes
MaxHexLen == 20    \* longest file handed to mkhex
MaxRecs == 3       \* how many records precede the last one of a hex file
MaxSegs == 3       \* how many program headers an ELF file has at most
MaxResets == 11    \* how many successive calls of reset_strategy are made

\* --------------------------------------------------------------- constants
END == 192
ESC == 219
ESC_END == 220
ESC_ESC == 221

\* The byte values the codec runs draw from: the four SLIP specials and one
\* ordinary byte.
SlipBytes == {END, ESC, ESC_END, ESC_ESC, 65}

RECURSIVE SeqsUpTo(_, _)
SeqsUpTo(S, n) ==
  IF n = 0 THEN {<<>>}
  ELSE LET shorter == SeqsUpTo(S, n - 1)
       IN  shorter \cup {Append(s, x) : s \in {t \in shorter : Len(t) = n - 1}, x \in S}

\* ------------------------------------------------------------ SLIP codec
\* slip_send: END, the escaped payload, END.
slip_escape_noesc(c) ==
  IF c = END THEN <<ESC, ESC_END>> ELSE <<c>>

slip_escape(c) ==
  IF c = END THEN <<ESC, ESC_END>>
  ELSE IF c = ESC THEN <<ESC, ESC_ESC>>
  ELSE <<c>>

RECURSIVE slip_body(_)
slip_body(p) ==
  IF p = <<>> THEN <<>> ELSE slip_escape(Head(p)) \o slip_body(Tail(p))

slip_send(p) == <<END>> \o slip_body(p) \o <<END>>

\* struct slip after construction (main): empty buffer of `size` bytes,
\* passthrough mode, no previous character.
slip_new(size) ==
  [buf |-> [k \in 1..size |-> 0], size |-> size, len |-> 0, mode |-> 0, prev |-> 0]

\* slip->buf[slip->len++] = b
slip_put(s, b) == [s EXCEPT !.buf[s.len + 1] = b, !.len = s.len + 1]

\* if (slip->len >= slip->size) slip->len = 0: the silent overflow test,
\* and the same test one byte too late.
slip_overflow_late(len, size) == len > size

slip_overflow(len, size) == len >= size

\* if (c == END) ...: the bytes that flip the mode, and a decoder that also
\* flips on the escaped form of the delimiter.
slip_flips_on_escaped(c) == c = END \/ c = ESC_END

slip_flips(c) == c = END

\* A decoder that takes a delimiter arriving in packet mode with nothing
\* assembled as the start of a frame (it stays in packet mode).
slip_recv_resync(c, s) ==
  LET res == IF s.mode = 1 /\ c = END THEN s.len ELSE 0
      s1 == IF s.mode = 1
            THEN LET t == IF s.prev = ESC /\ c = ESC_END THEN slip_put(s, END)
                          ELSE IF s.prev = ESC /\ c = ESC_ESC THEN slip_put(s, ESC)
                          ELSE IF c = END THEN s
                          ELSE IF c # ESC THEN slip_put(s, c)
                          ELSE s
                 IN  IF slip_overflow(t.len, t.size) THEN [t EXCEPT !.len = 0] ELSE t
            ELSE s
      s2 == [s1 EXCEPT !.prev = c]
      s3 == IF slip_flips(c) /\ ~(s.mode = 1 /\ s.len = 0)
            THEN [s2 EXCEPT !.len = 0, !.mode = 1 - s2.mode] ELSE s2
  IN  [res |-> res, slip |-> s3]

\* slip_recv(c, slip): [res |-> return value, slip |-> the decoder afterwards]
slip_recv(c, s) ==
  LET res == IF s.mode = 1 /\ c = END THEN s.len ELSE 0
      s1 == IF s.mode = 1
            THEN LET t == IF s.prev = ESC /\ c = ESC_END THEN slip_put(s, END)
                          ELSE IF s.prev = ESC /\ c = ESC_ESC THEN slip_put(s, ESC)
                          ELSE IF c = END THEN s
                          ELSE IF c # ESC THEN slip_put(s, c)
                          ELSE s
                 IN  IF slip_overflow(t.len, t.size) THEN [t EXCEPT !.len = 0] ELSE t
            ELSE s
      s2 == [s1 EXCEPT !.prev = c]
      s3 == IF slip_flips(c) THEN [s2 EXCEPT !.len = 0, !.mode = 1 - s2.mode] ELSE s2
  IN  [res |-> res, slip |-> s3]

\* The first r bytes of the decoder buffer: the packet a return value r names.
slip_packet(s, r) == SubSeq(s.buf, 1, r)

\* ---------------------------------------------------------- chip registry
\* 32-bit chip identifiers, as the four little-endian bytes READ_REG returns.
CHIP_ID_NONE == <<0, 0, 0, 0>>
CHIP_ID_ESP32 == <<131, 29, 240, 0>>
CHIP_ID_ESP32_S2 == <<198, 7, 0, 0>>
CHIP_ID_ESP32_C3_ECO_1_2 == <<111, 80, 33, 105>>
CHIP_ID_ESP32_C3_ECO3 == <<111, 80, 49, 27>>
CHIP_ID_ESP8266 == <<1, 193, 240, 255>>
CHIP_ID_ESP32_S3_BETA2 == <<54, 65, 0, 235>>
CHIP_ID_ESP32_S3_BETA3 == <<9, 0, 0, 0>>
CHIP_ID_ESP32_C6_BETA == <<111, 128, 161, 13>>

s_known_chips ==
  << [id |-> CHIP_ID_NONE, name |-> "Unknown", bla |-> 0],
     [id |-> CHIP_ID_ESP8266, name |-> "ESP8266", bla |-> 0],
     [id |-> CHIP_ID_ESP32, name |-> "ESP32", bla |-> 4096],
     [id |-> CHIP_ID_ESP32_C3_ECO_1_2, name |-> "ESP32-C3-ECO2", bla |-> 0],
     [id |-> CHIP_ID_ESP32_C3_ECO3, name |-> "ESP32-C3-ECO3", bla |-> 0],
     [id |-> CHIP_ID_ESP32_S2, name |-> "ESP32-S2", bla |-> 4096],
     [id |-> CHIP_ID_ESP32_S3_BETA2, name |-> "ESP32-S3-BETA2", bla |-> 0],
     [id |-> CHIP_ID_ESP32_S3_BETA3, name |-> "ESP32-S3-BETA3", bla |-> 0],
     [id |-> CHIP_ID_ESP32_C6_BETA, name |-> "ESP32-C6-BETA", bla |-> 0] >>

nchips == Len(s_known_chips)

\* ------------------------------------------------------------ line events
\* One entry of `trace`: a request handed to slip_send by cmd() (k = "cmd",
\* a = opcode, cs = checksum field, d = body, t = timeout_ms), the value a
\* call of cmd() returned (k = "ret"), a control line change (k = "dtr" /
\* "rts", a = 0 or 1; k = "rts_dtr", a = 2 * rts + dtr), a sleep
\* (k = "sleep", a = milliseconds), a flush of the serial buffers
\* (k = "flush") or a call of reset_strategy (k = "reset", a = its counter).
Ev(k, a) == [k |-> k, a |-> a, cs |-> 0, d |-> <<>>, t |-> 0]
EvCmd(op, body, cs, timeout_ms) ==
  [k |-> "cmd", a |-> op, cs |-> cs, d |-> body, t |-> timeout_ms]

\* -------------------------------------------------------------------- cmd
\* The request cmd() hands to slip_send for a recorded call: the 8-byte
\* header (0, op, 16-bit length, 32-bit checksum, little-endian), then the
\* body.
cmd_request(e) ==
  LET len == Len(e.d) % 65536
  IN  <<0, e.a, len % 256, len \div 256>>
      \o <<e.cs % 256, (e.cs \div 256) % 256, (e.cs \div 65536) % 256, e.cs \div 16777216>>
      \o e.d
\* The status offset of an accepted response of r bytes (0-based).
cmd_eofs_esp8266_only(chipid, r) ==
  IF chipid = CHIP_ID_ESP8266 THEN r - 2 ELSE r - 4

cmd_eofs(chipid, r) ==
  IF chipid = CHIP_ID_NONE \/ chipid = CHIP_ID_ESP8266 THEN r - 2 ELSE r - 4

\* The test that makes cmd() take an assembled frame of r bytes as the
\* response to `op`.
cmd_accepts_any_op(buf, r, op) == ~(r < 10 \/ buf[1] # 1)

cmd_accepts(buf, r, op) == ~(r < 10 \/ buf[1] # 1 \/ buf[2] # op)

\* A cmd() that returns the status flag itself.
cmd_ecode_is_flag(buf, eofs) == buf[eofs + 1]

\* ecode = buf[eofs] ? buf[eofs + 1] : 0
cmd_ecode(buf, eofs) == IF buf[eofs + 1] # 0 THEN buf[eofs + 2] ELSE 0

\* The inner loop of cmd() over the n bytes of one read(): feeds the bytes
\* to slip_recv in order and stops at the first accepted response, leaving
\* the rest of the chunk unprocessed.
\* [slip, frames (assembled so far), done, ecode, taken (the response)]
RECURSIVE cmd_scan(_, _, _, _, _)
cmd_scan(chunk, s, op, chipid, seen) ==
  IF chunk = <<>>
  THEN [slip |-> s, frames |-> seen, done |-> FALSE, ecode |-> 0, taken |-> <<>>]
  ELSE \* r: the result of slip_recv on the next byte, evaluated once
       CHOOSE out \in
         { IF r.res = 0 THEN cmd_scan(Tail(chunk), r.slip, op, chipid, seen)
           ELSE IF cmd_accepts(r.slip.buf, r.res, op)
           THEN [slip |-> r.slip,
                 frames |-> Append(seen, slip_packet(r.slip, r.res)),
                 done |-> TRUE,
                 ecode |-> cmd_ecode(r.slip.buf, cmd_eofs(chipid, r.res)),
                 taken |-> slip_packet(r.slip, r.res)]
           ELSE cmd_scan(Tail(chunk), r.slip, op, chipid,
                         Append(seen, slip_packet(r.slip, r.res)))
           : r \in {slip_recv(Head(chunk), s)} } : TRUE

\* cmd(), entered after the program has done `before` (line events since
\* its last step): build the request, slip_send it, enter the read loop.
cmd_start_after(before, op, body, cs, timeout_ms) ==
  /\ trace' = (trace \o before) \o <<EvCmd(op, body, cs, timeout_ms)>>
  /\ cop' = op
  /\ cst' = "wait"
  /\ cret' = 0
  /\ frames' = <<>>
  /\ taken' = <<>>

\* iowait() comes back without READY_SERIAL: nothing arrived on the serial
\* line for timeout_ms, or only stdin / the socket became readable.
CmdNoSerial ==
  /\ cst = "wait"
  /\ wire = <<>>
  /\ ~closed
  /\ cst' = "ret"
  /\ cret' = 1
  /\ trace' = Append(trace, Ev("ret", 1))
  /\ UNCHANGED <<pc, slip, wire, chip, cop, frames, taken, err, closed, nsent,
                 codecVars, connVars, flashVars>>
  /\ UNCHANGED <<monVars, disk, binVars>>

\* iowait() reports the serial line readable and read() returns n bytes.
CmdRead(n) ==
  /\ cst = "wait"
  /\ n \in 1..Len(wire)
  /\ \E res \in {cmd_scan(SubSeq(wire, 1, n), slip, cop, chip.id, frames)} :
         /\ slip' = res.slip
         /\ frames' = res.frames
         /\ taken' = res.taken
         /\ cst' = IF res.done THEN "ret" ELSE "wait"
         /\ cret' = IF res.done THEN res.ecode ELSE cret
         /\ trace' = IF res.done THEN Append(trace, Ev("ret", res.ecode)) ELSE trace
  /\ wire' = SubSeq(wire, n + 1, Len(wire))
  /\ UNCHANGED <<pc, chip, cop, err, closed, nsent, codecVars, connVars, flashVars>>
  /\ UNCHANGED <<monVars, disk, binVars>>

\* The test on what read() returned from the serial handle, in cmd() and
\* in monitor(): n <= 0.
read_failed_never(n) == n < 0
read_failed(n) == n <= 0

\* iowait() reports the closed line readable and read() returns 0:
\* fail("Serial line closed").
CmdEof ==
  /\ cst = "wait"
  /\ read_failed(Len(wire))
  /\ closed
  /\ pc' = "exit_failure"
  /\ err' = "Serial line closed"
  /\ cst' = "idle"
  /\ UNCHANGED <<slip, wire, chip, cop, cret, frames, taken, trace, closed, nsent,
                 codecVars, connVars, flashVars>>
  /\ UNCHANGED <<monVars, disk, binVars>>

\* ------------------------------------------------------------ fail, main
\* fail(): print the diagnostic and exit(EXIT_FAILURE).
fail(msg) == pc' = "exit_failure" /\ err' = msg

\* strcasecmp(a, b) == 0 on the names in use: the comparison ignores case.
FoldCase(name) ==
  IF name = "esp32" THEN "ESP32" ELSE IF name = "esp8266" THEN "ESP8266" ELSE name

strcasecmp_eq(a, b) == FoldCase(a) = FoldCase(b)

\* The first registry entry among the indexes S (the loops over
\* s_known_chips stop at the first match), 0 if S is empty.
FirstChip(S) ==
  IF S = {} THEN 0 ELSE CHOOSE k \in S : \A m \in S : k <= m

\* set_chip_from_string(): 0 stands for fail("Unknown chip type").
set_chip_from_string(name) ==
  FirstChip({k \in 1..nchips : strcasecmp_eq(s_known_chips[k].name, name)})

\* main(): the option loop handles -chip NAME, then the serial command runs
\* (every serial command starts with chip_connect).
MainOptions ==
  /\ pc = "main"
  /\ IF optChip = "" THEN pc' = "connect" /\ UNCHANGED <<chip, err>>
     ELSE LET k == set_chip_from_string(optChip)
          IN  IF k = 0 THEN fail("Unknown chip type") /\ UNCHANGED chip
              ELSE chip' = s_known_chips[k] /\ pc' = "connect" /\ UNCHANGED err
  /\ UNCHANGED <<slip, wire, cmdVars, trace, closed, nsent, codecVars, connVars, flashVars>>
  /\ UNCHANGED <<monVars, disk, binVars>>

\* ---------------------------------------------------------- reset recipes
DEFAULT_RESET_DELAY == 50

set_rts(v) == Ev("rts", v)
set_dtr(v) == Ev("dtr", v)
set_rts_and_dtr(rts, dtr) == Ev("rts_dtr", 2 * rts + dtr)
sleep_ms(ms) == Ev("sleep", ms)
flushio == Ev("flush", 0)

hard_reset == <<set_dtr(0), set_rts(1), sleep_ms(100), set_rts(0)>>

reset_to_bootloader_usb_jtag_serial ==
  << set_rts(0), set_dtr(0), sleep_ms(100),
     set_dtr(1), set_rts(0), sleep_ms(100),
     set_rts(1), set_dtr(0), set_rts(1), sleep_ms(100),
     set_dtr(0), set_rts(0) >>

reset_to_bootloader(delay_ms) ==
  << sleep_ms(100), set_dtr(0), set_rts(1), sleep_ms(100),
     set_dtr(1), set_rts(0), sleep_ms(delay_ms), set_dtr(0) >>

unix_tight_reset_to_bootloader(delay_ms) ==
  << set_rts_and_dtr(0, 0), set_rts_and_dtr(1, 1), set_rts_and_dtr(1, 0),
     sleep_ms(100), set_rts_and_dtr(0, 1), sleep_ms(delay_ms),
     set_rts_and_dtr(0, 0), set_dtr(0) >>

\* reset_strategy(): the counter after the wrap test, the recipe it selects.
reset_wrap_late(plat, n) ==
  IF plat = "win32" THEN (IF n > 3 THEN 0 ELSE n) ELSE (IF n > 5 THEN 0 ELSE n)
reset_wrap(plat, n) ==
  IF plat = "win32" THEN (IF n > 2 THEN 0 ELSE n) ELSE (IF n > 4 THEN 0 ELSE n)

reset_recipe(plat, c) ==
  IF plat = "win32"
  THEN IF c = 0 THEN reset_to_bootloader_usb_jtag_serial
       ELSE IF c = 1 THEN reset_to_bootloader(DEFAULT_RESET_DELAY)
       ELSE reset_to_bootloader(DEFAULT_RESET_DELAY + 50)
  ELSE IF c = 0 THEN reset_to_bootloader_usb_jtag_serial
       ELSE IF c = 1 THEN unix_tight_reset_to_bootloader(DEFAULT_RESET_DELAY)
       ELSE IF c = 2 THEN unix_tight_reset_to_bootloader(DEFAULT_RESET_DELAY + 50)
       ELSE IF c = 3 THEN reset_to_bootloader(DEFAULT_RESET_DELAY)
       ELSE reset_to_bootloader(DEFAULT_RESET_DELAY + 50)

\* The line events of one call of reset_strategy with static counter n.
reset_strategy(plat, n) ==
  <<Ev("reset", reset_wrap(plat, n))>> \o reset_recipe(plat, reset_wrap(plat, n))

\* ----------------------------------------------- chip_connect, chip_detect
\* A 32-bit value below 2^31 as its four little-endian bytes.
le32(x) == << x % 256, (x \div 256) % 256, (x \div 65536) % 256, x \div 16777216 >>

\* The SYNC body: 07 07 12 20, then 32 bytes 0x55.
sync_data == <<7, 7, 18, 32>> \o [k \in 1..32 |-> 85]

CHIP_ID_ADDR == 1073745920   \* 0x40001000

\* Number of reset rounds, and of SYNC attempts in round jj.
connect_rounds == 6
sync_attempts_one_more(jj) == 3 + jj
sync_attempts(jj) == 2 + jj

\* The test on the value cmd(SYNC) returned.
sync_succeeded_never(ret) == FALSE
sync_succeeded(ret) == ret = 0

\* One round of the outer loop begins: reset_strategy, flushio, first SYNC.
connect_round(before) ==
  /\ cmd_start_after(before \o reset_strategy(platform, count) \o <<flushio>>,
                     8, sync_data, 0, 100)
  /\ count' = reset_wrap(platform, count) + 1
  /\ wire' = <<>>
  /\ i' = 0

ConnectStart ==
  /\ pc = "connect"
  /\ connect_round(<<>>)
  /\ j' = 0
  /\ pc' = "sync"
  /\ UNCHANGED <<slip, chip, err, closed, nsent, codecVars, optChip, platform,
                 flashVars>>
  /\ UNCHANGED <<monVars, disk, binVars>>

\* cmd(SYNC) has returned 0: sleep, flush, chip_detect() sends READ_REG.
SyncOk ==
  /\ pc = "sync" /\ cst = "ret" /\ sync_succeeded(cret)
  /\ cmd_start_after(<<sleep_ms(50), flushio>>, 10, le32(CHIP_ID_ADDR), 0, 100)
  /\ wire' = <<>>
  /\ pc' = "detect"
  /\ UNCHANGED <<slip, chip, err, closed, nsent, codecVars, connVars, flashVars>>
  /\ UNCHANGED <<monVars, disk, binVars>>

\* cmd(SYNC) has returned non-zero: the next attempt, the next round, or
\* return false.
SyncFailed ==
  /\ pc = "sync" /\ cst = "ret" /\ ~sync_succeeded(cret)
  /\ IF i + 1 < sync_attempts(j)
     THEN /\ cmd_start_after(<<>>, 8, sync_data, 0, 100)
          /\ i' = i + 1
          /\ UNCHANGED <<pc, wire, j, count>>
     ELSE IF j + 1 < connect_rounds
     THEN /\ connect_round(<<>>)
          /\ j' = j + 1
          /\ UNCHANGED pc
     ELSE /\ pc' = "connect_false"
          /\ cst' = "idle"
          /\ i' = i + 1 /\ j' = j + 1
          /\ UNCHANGED <<wire, count, cop, cret, frames, taken, trace>>
  /\ UNCHANGED <<slip, chip, err, closed, nsent, codecVars, optChip, platform,
                 flashVars>>
  /\ UNCHANGED <<monVars, disk, binVars>>

\* read32(): the value is the four bytes at buf[4] of the response.
read32_value(s) == SubSeq(s.buf, 5, 8)

\* chip_detect() once read32 has returned: the registry entry the session
\* continues with, or the diagnostic of fail().
chip_detect_no_check(cur, ok, chipid) ==
  LET k == FirstChip({m \in 1..nchips : s_known_chips[m].id = chipid})
  IN  IF ok # 0 THEN [fail |-> "Error reading chip ID", chip |-> cur]
      ELSE IF k = 0 THEN [fail |-> "Unknown chip ID", chip |-> cur]
      ELSE [fail |-> "", chip |-> s_known_chips[k]]

chip_detect(cur, ok, chipid) ==
  LET k == FirstChip({m \in 1..nchips : s_known_chips[m].id = chipid})
  IN  IF ok # 0 THEN [fail |-> "Error reading chip ID", chip |-> cur]
      ELSE IF k = 0 THEN [fail |-> "Unknown chip ID", chip |-> cur]
      ELSE IF cur.id # CHIP_ID_NONE /\ cur.id # chipid
      THEN [fail |-> "Chip specified does not match chip detected", chip |-> cur]
      ELSE [fail |-> "", chip |-> s_known_chips[k]]

\* cmd(READ_REG) has returned: chip_detect() finishes and chip_connect()
\* returns true, or the program exits through fail().
DetectDone ==
  /\ pc = "detect" /\ cst = "ret"
  /\ LET d == chip_detect(chip, cret, read32_value(slip))
     IN  IF d.fail # "" THEN fail(d.fail) /\ UNCHANGED chip
         ELSE chip' = d.chip /\ pc' = "connect_true" /\ UNCHANGED err
  /\ cst' = "idle"
  /\ UNCHANGED <<slip, wire, cop, cret, frames, taken, trace, closed, nsent, codecVars,
                 connVars, flashVars>>
  /\ UNCHANGED <<monVars, disk, binVars>>

\* ------------------------------------------------------- flash, flashbin
\* checksum2(): v XORed with every byte of buf.
RECURSIVE xor8(_, _)
xor8(a, b) ==
  IF a = 0 THEN b ELSE IF b = 0 THEN a
  ELSE 2 * xor8(a \div 2, b \div 2) + ((a + b) % 2)

RECURSIVE checksum2(_, _)
checksum2(v, buf) ==
  IF buf = <<>> THEN v ELSE checksum2(xor8(v, Head(buf)), Tail(buf))

checksum_seed_zero(buf) == checksum2(0, buf)
checksum(buf) == checksum2(239, buf)

\* atoi() and strtoul(s, NULL, 0) on the words in use; a word that does not
\* start with a number converts to 0.
atoi(s) ==
  IF s = "115200" THEN 115200 ELSE IF s = "921600" THEN 921600 ELSE 0

strtoul(s) ==
  IF s = "0x1000" THEN 4096 ELSE IF s = "0x10000" THEN 65536
  ELSE IF s = "0x220" THEN 544 ELSE 0

\* has_suffix() on the words in use.
has_suffix(s, suffix) == suffix = ".hex" /\ s \in {"fw.hex"}

\* The files of the run.  Img(n): an image of n bytes that starts with the
\* bootloader magic 0xe9.
Img(n) == [k \in 1..n |-> IF k = 1 THEN 233 ELSE (17 * k) % 256]

\* fopen(path, "rb") and the bytes fread() will return; ok is FALSE where
\* fopen returns NULL.
fopen(path) ==
  IF path = "boot.bin" THEN [ok |-> TRUE, data |-> Img(BlockSize + 1)]
  ELSE IF path = "app.bin" THEN [ok |-> TRUE, data |-> Img(BlockSize)]
  ELSE IF path = "small.bin" THEN [ok |-> TRUE, data |-> Img(BlockSize - 1)]
  ELSE IF path = "empty.bin" THEN [ok |-> TRUE, data |-> <<>>]
  ELSE IF path = "fw.hex.tmp/0x1000" THEN [ok |-> TRUE, data |-> Img(2 * BlockSize)]
  ELSE IF path = "fw.hex.tmp/0x10000" THEN [ok |-> TRUE, data |-> Img(2 * BlockSize + 1)]
  ELSE [ok |-> FALSE, data |-> <<>>]

\* unhex(): the file_list it leaves for the .hex files of the run, one file
\* per contiguous address run, named after the run's start address.
unhex(path) ==
  IF path = "fw.hex" THEN <<"fw.hex.tmp/0x1000", "fw.hex.tmp/0x10000">> ELSE <<>>

\* slash ? slash + 1 : s, with slash = strrchr(s, '/')
basename(s) ==
  IF s = "fw.hex.tmp/0x1000" THEN "0x1000"
  ELSE IF s = "fw.hex.tmp/0x10000" THEN "0x10000" ELSE s

\* fail() out of flash(): no request is sent.
flash_fail(msg) ==
  /\ fail(msg)
  /\ cst' = "idle"
  /\ UNCHANGED <<cop, cret, frames, taken, trace>>

\* "For non-ESP8266, SPI attach is mandatory"
flash_attach_always(chipid) == TRUE
flash_needs_attach(chipid) == chipid # CHIP_ID_ESP8266

\* The block as read from the file, without the patches.
patch_block_never(blk, c, offset, sq, params) == blk

\* tmp = seq++: the sequence number after a block has been numbered.
seq_unchanged(n) == n
seq_next(n) == n + 1

\* flash() up to its first request: chip_connect has returned.
FlashStart ==
  /\ pc \in {"connect_true", "connect_false"}
  /\ IF pc = "connect_false"
     THEN flash_fail("Error connecting") /\ UNCHANGED flash_params
     ELSE /\ flash_params' = IF fpar # "" THEN strtoul(fpar) % 65536 ELSE 0
          /\ IF atoi(baud) > 115200
             THEN /\ cmd_start_after(<<>>, 15, le32(atoi(baud)) \o le32(0), 0, 50)
                  /\ pc' = "set_baud"
             ELSE pc' = "attach" /\ UNCHANGED <<cmdVars, trace>>
          /\ UNCHANGED err
  /\ UNCHANGED <<slip, wire, chip, closed, nsent, codecVars, connVars,
                 baud, fpar, command, args, flist, flash_offset, fp, seq>>
  /\ UNCHANGED <<monVars, disk, binVars>>

\* cmd(CHANGE_BAUD) has returned.
SetBaudDone ==
  /\ pc = "set_baud" /\ cst = "ret"
  /\ IF cret # 0 THEN flash_fail("SET_BAUD failed")
     ELSE /\ trace' = Append(trace, Ev("baud", atoi(baud)))
          /\ pc' = "attach" /\ cst' = "idle"
          /\ UNCHANGED <<cop, cret, frames, taken, err>>
  /\ UNCHANGED <<slip, wire, chip, closed, nsent, codecVars, connVars, flashVars>>
  /\ UNCHANGED <<monVars, disk, binVars>>

\* spiattach() for every chip but the ESP8266 (no -fs option: pins 0).
SpiAttach ==
  /\ pc = "attach"
  /\ IF flash_needs_attach(chip.id)
     THEN /\ cmd_start_after(<<>>, 13, le32(0) \o le32(0), 0, 250)
          /\ pc' = "spi_attach"
     ELSE pc' = "flash_args" /\ UNCHANGED <<cmdVars, trace>>
  /\ UNCHANGED <<slip, wire, chip, err, closed, nsent, codecVars, connVars, flashVars>>
  /\ UNCHANGED <<monVars, disk, binVars>>

\* cmd(SPI_ATTACH) has returned: SPI_SET_PARAMS.
SpiAttachDone ==
  /\ pc = "spi_attach" /\ cst = "ret"
  /\ IF cret # 0 THEN flash_fail("SPI_ATTACH failed")
     ELSE /\ cmd_start_after(<<>>, 11,
                             le32(0) \o le32(4 * 1024 * 1024) \o le32(65536)
                               \o le32(4096) \o le32(256) \o le32(65535),
                             0, 250)
          /\ pc' = "spi_set_params"
          /\ UNCHANGED err
  /\ UNCHANGED <<slip, wire, chip, closed, nsent, codecVars, connVars, flashVars>>
  /\ UNCHANGED <<monVars, disk, binVars>>

\* cmd(SPI_SET_PARAMS) has returned: without -fp, READ_FLASH_SLOW reads the
\* first 16 bytes of the bootloader.
SpiSetParamsDone ==
  /\ pc = "spi_set_params" /\ cst = "ret"
  /\ IF cret # 0 THEN flash_fail("SPI_SET_PARAMS failed")
     ELSE IF fpar = ""
     THEN /\ cmd_start_after(<<>>, 14, le32(chip.bla) \o le32(16), 0, 2000)
          /\ pc' = "read_flash_params"
          /\ UNCHANGED err
     ELSE /\ pc' = "flash_args" /\ cst' = "idle"
          /\ UNCHANGED <<cop, cret, frames, taken, trace, err>>
  /\ UNCHANGED <<slip, wire, chip, closed, nsent, codecVars, connVars, flashVars>>
  /\ UNCHANGED <<monVars, disk, binVars>>

\* cmd(READ_FLASH_SLOW) has returned: a failure or a wrong magic is only
\* printed; otherwise the parameters are buf[10] and buf[11].
ReadFlashParamsDone ==
  /\ pc = "read_flash_params" /\ cst = "ret"
  /\ flash_params' = IF cret # 0 \/ slip.buf[9] # 233 THEN flash_params
                     ELSE slip.buf[11] * 256 + slip.buf[12]
  /\ pc' = "flash_args" /\ cst' = "idle"
  /\ UNCHANGED <<slip, wire, chip, cop, cret, frames, taken, trace, err, closed, nsent,
                 codecVars, connVars,
                 baud, fpar, command, args, flist, flash_offset, fp, seq>>
  /\ UNCHANGED <<monVars, disk, binVars>>

\* flashbin() up to cmd(FLASH_BEGIN): open the file, take its size, send
\* [size, num_blocks, block_size, flash_offset] and, for the S2, S3, C3 and
\* C6 chips, a fifth word (encrypted = 0).
flashbin_open(offset, path) ==
  LET f == fopen(path)
      size == Len(f.data)
      num_blocks == (size + BlockSize - 1) \div BlockSize
      d1 == le32(size) \o le32(num_blocks) \o le32(BlockSize) \o le32(offset)
              \o le32(0)
      d1size == IF chip.id \in {CHIP_ID_ESP32_S2, CHIP_ID_ESP32_S3_BETA2,
                                CHIP_ID_ESP32_S3_BETA3, CHIP_ID_ESP32_C6_BETA,
                                CHIP_ID_ESP32_C3_ECO_1_2, CHIP_ID_ESP32_C3_ECO3}
                THEN 20 ELSE 16
  IN  IF ~f.ok
      THEN flash_fail("Cannot open") /\ UNCHANGED <<flash_offset, fp, seq>>
      ELSE /\ cmd_start_after(<<>>, 2, SubSeq(d1, 1, d1size), 0, 15000)
           /\ pc' = "flash_begin"
           /\ flash_offset' = offset
           /\ fp' = f.data
           /\ seq' = 0
           /\ UNCHANGED err

\* "Embed flash params into a bootloader image": the block after the
\* patches of its first 16 bytes (buf[hs + 2], [hs + 3], [hs + 8], [hs + 12]).
patch_block(blk, c, offset, sq, params) ==
  IF sq = 0 /\ offset = c.bla
  THEN [k \in 1..Len(blk) |->
          IF k = 3 /\ params # 0 THEN (params \div 256) % 256
          ELSE IF k = 4 /\ params # 0 THEN params % 256
          ELSE IF k = 9 /\ c.id = CHIP_ID_ESP32_S2 THEN 0
          ELSE IF k = 13 /\ c.id = CHIP_ID_ESP32_S2 THEN 2
          ELSE IF k = 13 /\ c.id \in {CHIP_ID_ESP32_C3_ECO3, CHIP_ID_ESP32_C3_ECO_1_2}
          THEN 5
          ELSE blk[k]]
  ELSE blk

\* The body of FLASH_DATA: [n, seq, 0, 0] in the first hs = 16 bytes, then
\* the n bytes of the block.
flash_data_body(blk, sq) == le32(Len(blk)) \o le32(sq) \o le32(0) \o le32(0) \o blk

\* One iteration of the argument loop of flash(): after the last word
\* FLASH_END; a .hex word is unhexed; ADDR FILE is flashed; a last word
\* that is neither leaves args as it is and the loop tests it again.
FlashArgs ==
  /\ pc = "flash_args"
  /\ IF args = <<>>
     THEN /\ cmd_start_after(<<>>, 4, le32(0), 0, 250)
          /\ pc' = "flash_end"
          /\ UNCHANGED <<err, flist, flash_offset, fp, seq>>
     ELSE IF has_suffix(args[1], ".hex")
     THEN /\ flist' = unhex(args[1])
          /\ pc' = "flash_hex"
          /\ UNCHANGED <<cmdVars, trace, err, flash_offset, fp, seq>>
     ELSE IF Len(args) >= 2
     THEN flashbin_open(strtoul(args[1]), args[2]) /\ UNCHANGED flist
     ELSE UNCHANGED <<pc, cmdVars, trace, err, flist, flash_offset, fp, seq>>
  /\ UNCHANGED <<slip, wire, chip, closed, nsent, codecVars, connVars,
                 baud, fpar, command, args, flash_params>>
  /\ UNCHANGED <<monVars, disk, binVars>>

\* One iteration of the loop over the unhexed files: flash the next one at
\* the offset its name gives, or leave the loop (args += 1).
FlashHex ==
  /\ pc = "flash_hex"
  /\ IF flist = <<>>
     THEN /\ args' = Tail(args)
          /\ pc' = "flash_args"
          /\ UNCHANGED <<cmdVars, trace, err, flash_offset, fp, seq>>
     ELSE /\ flashbin_open(strtoul(basename(Head(flist))), Head(flist))
          /\ UNCHANGED args
  /\ UNCHANGED <<slip, wire, chip, closed, nsent, codecVars, connVars,
                 baud, fpar, command, flist, flash_params>>
  /\ UNCHANGED <<monVars, disk, binVars>>

\* cmd(FLASH_BEGIN) has returned.
FlashBeginDone ==
  /\ pc = "flash_begin" /\ cst = "ret"
  /\ IF cret # 0 THEN flash_fail("erase failed")
     ELSE /\ pc' = "fread" /\ cst' = "idle"
          /\ UNCHANGED <<cop, cret, frames, taken, trace, err>>
  /\ UNCHANGED <<slip, wire, chip, closed, nsent, codecVars, connVars, flashVars>>
  /\ UNCHANGED <<monVars, disk, binVars>>

\* One iteration of the fread loop of flashbin(): send the next block as
\* FLASH_DATA, or at end of file return to the loop that called flashbin
\* (s = p in the .hex loop, args += 2 otherwise).
FlashRead ==
  /\ pc = "fread"
  /\ LET n == IF Len(fp) < BlockSize THEN Len(fp) ELSE BlockSize
         blk == patch_block(SubSeq(fp, 1, n), chip, flash_offset, seq, flash_params)
     IN  IF n > 0
         THEN /\ cmd_start_after(<<>>, 3, flash_data_body(blk, seq), checksum(blk), 1500)
              /\ seq' = seq_next(seq)
              /\ fp' = SubSeq(fp, n + 1, Len(fp))
              /\ pc' = "flash_data"
              /\ UNCHANGED <<args, flist>>
         ELSE /\ IF has_suffix(args[1], ".hex")
                 THEN flist' = Tail(flist) /\ pc' = "flash_hex" /\ UNCHANGED args
                 ELSE args' = Tail(Tail(args)) /\ pc' = "flash_args" /\ UNCHANGED flist
              /\ UNCHANGED <<cmdVars, trace, fp, seq>>
  /\ UNCHANGED <<slip, wire, chip, err, closed, nsent, codecVars, connVars,
                 baud, fpar, command, flash_params, flash_offset>>
  /\ UNCHANGED <<monVars, disk, binVars>>

\* cmd(FLASH_DATA) has returned.
FlashDataDone ==
  /\ pc = "flash_data" /\ cst = "ret"
  /\ IF cret # 0 THEN flash_fail("flash_data failed")
     ELSE /\ pc' = "fread" /\ cst' = "idle"
          /\ UNCHANGED <<cop, cret, frames, taken, trace, err>>
  /\ UNCHANGED <<slip, wire, chip, closed, nsent, codecVars, connVars, flashVars>>
  /\ UNCHANGED <<monVars, disk, binVars>>

\* cmd(FLASH_END) has returned: hard_reset, and main() returns 0.
FlashEndDone ==
  /\ pc = "flash_end" /\ cst = "ret"
  /\ IF cret # 0 THEN flash_fail("flash_end failed")
     ELSE /\ trace' = trace \o hard_reset
          /\ pc' = "exit_success" /\ cst' = "idle"
          /\ UNCHANGED <<cop, cret, frames, taken, err>>
  /\ UNCHANGED <<slip, wire, chip, closed, nsent, codecVars, connVars, flashVars>>
  /\ UNCHANGED <<monVars, disk, binVars>>

\* ------------------------------------------------------------------ peer
\* The peer writes `bytes` to the line.
DevSend(bytes) ==
  /\ ~closed
  /\ nsent < MaxDevSends
  /\ wire' = wire \o bytes
  /\ nsent' = nsent + 1
  /\ UNCHANGED <<pc, slip, chip, cmdVars, trace, err, closed, codecVars, connVars, flashVars>>
  /\ UNCHANGED <<monVars, disk, binVars>>

\* The peer closes the line (unplugged).
DevClose ==
  /\ ~closed
  /\ closed' = TRUE
  /\ UNCHANGED <<pc, slip, wire, chip, cmdVars, trace, err, nsent, codecVars, connVars, flashVars>>
  /\ UNCHANGED <<monVars, disk, binVars>>

\* A response frame: direction, opcode, size field, 32-bit value, then the
\* status tail.
resp(dir, op, val, tail) == <<dir, op, 0, 0>> \o val \o tail

StatusTails ==
  { <<0, 0>>, <<1, 5>>, <<1, 0>>, <<1, 1>>, <<1, 6, 0, 0>>, <<0, 0, 1, 7>> }

\* What the peer may write while cmd(op) runs: responses to `op` with every
\* status tail, frames cmd() must not take (a request echo, another opcode,
\* a 9-byte frame), a byte outside any frame and a lone delimiter.
CmdPeerWrites(op) ==
  { slip_send(resp(1, op, CHIP_ID_NONE, t)) : t \in StatusTails }
  \cup { slip_send(resp(0, op, CHIP_ID_NONE, <<0, 0>>)),
         slip_send(resp(1, op + 1, CHIP_ID_NONE, <<0, 0>>)),
         slip_send(resp(1, op, CHIP_ID_NONE, <<0>>)),
         <<65>>, <<END>> }

\* ------------------------------------------------- codec runs (SpecSlip)
NoFlash ==
  /\ baud = "115200" /\ fpar = "" /\ command = <<>> /\ args = <<>> /\ flist = <<>>
  /\ flash_params = 0 /\ flash_offset = 0 /\ fp = <<>> /\ seq = 0

\* The directory before unhex() has created a file: the names in the order
\* they were appended to buf, and the content of each file; a file is named
\* by the address in its name (dir/%#lx.bin).  out is the open file,
\* <<>> for NULL.
NoDisk == [list |-> <<>>, data |-> <<>>, out |-> <<>>, upper |-> 0, next |-> 0, err |-> ""]

\* No ELF file has been read and no image has been written.
NoElf == [class |-> 0, e_entry |-> 0, phdrs |-> <<>>]
NoBin == elf = NoElf /\ bin = <<>>

NoMonitor ==
  /\ s_signo = 0 /\ sock = 3 /\ kin = <<>> /\ sockin = <<>>
  /\ stdout = <<>> /\ dgrams = <<>> /\ uart = <<>>
  /\ disk = NoDisk /\ NoBin

NoConnect ==
  /\ optChip = "" /\ platform = "unix" /\ count = 0 /\ j = 0 /\ i = 0
  /\ NoFlash
  /\ NoMonitor

NoSession ==
  /\ chip = s_known_chips[1]
  /\ cst = "idle" /\ cop = 0 /\ cret = 0 /\ frames = <<>> /\ taken = <<>>
  /\ trace = <<>> /\ err = "" /\ closed = FALSE /\ nsent = 0
  /\ NoConnect

sessionVars == <<chip, cmdVars, trace, err, closed, nsent, connVars, flashVars, monVars, disk, binVars>>

\* A codec run: encode `input` with slip_send, then feed the emitted bytes
\* one by one to slip_recv, collecting every reported packet.
SlipInit ==
  /\ pc = "encode"
  /\ input \in SeqsUpTo(SlipBytes, MaxLen)
  /\ \E size \in 1..MaxSlipSize : slip = slip_new(size)
  /\ wire = <<>>
  /\ pkts = <<>>
  /\ NoSession

SlipEncode ==
  /\ pc = "encode"
  /\ wire' = slip_send(input)
  /\ pc' = "decode"
  /\ UNCHANGED <<slip, input, pkts, sessionVars>>

SlipDecode ==
  /\ pc = "decode"
  /\ wire # <<>>
  /\ LET r == slip_recv(Head(wire), slip)
     IN  /\ slip' = r.slip
         /\ pkts' = IF r.res > 0 THEN Append(pkts, slip_packet(r.slip, r.res)) ELSE pkts
  /\ wire' = Tail(wire)
  /\ pc' = IF Tail(wire) = <<>> THEN "decoded" ELSE "decode"
  /\ UNCHANGED <<input, sessionVars>>

SlipNext == SlipEncode \/ SlipDecode

SpecSlip == SlipInit /\ [][SlipNext]_vars

\* --------------------------------------- the decoder alone (SpecDecode)
\* slip_recv on a raw byte stream: every sequence of up to MaxStream bytes
\* over SlipBytes, well-formed or not, is fed one byte per step to a decoder
\* of each capacity, starting as main leaves it (passthrough, empty).
MaxStream == 5


\* The streams: every raw one, and every two frames slip_send writes one
\* after the other for payloads over {0x41, 0xDB}.
DecodeStreams ==
  SeqsUpTo(SlipBytes, MaxStream)
    \cup {slip_send(p) \o slip_send(q) : p, q \in SeqsUpTo({65, ESC}, MaxLen)}

DecodeInit ==
  /\ input \in DecodeStreams
  /\ wire = input
  /\ pc = IF input = <<>> THEN "decoded" ELSE "decode"
  /\ \E size \in 1..MaxSlipSize : slip = slip_new(size)
  /\ pkts = <<>>
  /\ NoSession

SpecDecode == DecodeInit /\ [][SlipDecode]_vars

\* ------------------------------------------------ one cmd() call (SpecCmd)
\* A single call of cmd() with opcode SYNC (8) or READ_REG (10) under each
\* of three current chip descriptors, against a peer that writes up to
\* MaxDevSends times and may close the line.
CmdInit ==
  /\ pc = "call"
  /\ slip = slip_new(SlipBufSize)
  /\ input = <<>> /\ pkts = <<>>
  /\ wire = <<>>
  /\ \E k \in 1..3 : chip = s_known_chips[k]
  /\ cop \in {8, 10}
  /\ cst = "idle" /\ cret = 0 /\ frames = <<>> /\ taken = <<>>
  /\ trace = <<>> /\ err = "" /\ closed = FALSE /\ nsent = 0
  /\ NoConnect

CmdCall ==
  /\ pc = "call"
  /\ cmd_start_after(<<>>, cop, <<>>, 0, 100)
  /\ pc' = "called"
  /\ UNCHANGED <<slip, wire, chip, err, closed, nsent, codecVars, connVars, flashVars>>
  /\ UNCHANGED <<monVars, disk, binVars>>

CmdPeer == \E b \in CmdPeerWrites(cop) : DevSend(b)

\* The sizes read() is taken to return: one byte, the bytes up to and
\* including a frame delimiter, or everything that is buffered.
ReadSizes(w) == {n \in 1..Len(w) : n = 1 \/ n = Len(w) \/ w[n] = END}

CmdReadAny == \E n \in ReadSizes(wire) : CmdRead(n)

CmdNext == CmdCall \/ CmdNoSerial \/ CmdReadAny \/ CmdEof \/ CmdPeer \/ DevClose

SpecCmd == CmdInit /\ [][CmdNext]_vars

\* The same call against a peer that, besides, writes another byte whenever
\* the program has drained the line (firmware that keeps logging).  The
\* program's own steps are weakly fair: a step of cmd() that stays possible
\* is eventually taken.
DevChatter ==
  /\ ~closed
  /\ wire = <<>>
  /\ wire' = <<65>>
  /\ UNCHANGED <<pc, slip, chip, cmdVars, trace, err, closed, nsent, codecVars, connVars, flashVars>>
  /\ UNCHANGED <<monVars, disk, binVars>>

CmdProgram == CmdCall \/ CmdNoSerial \/ CmdReadAny \/ CmdEof

\* Here the bounded writes are a response to the request or a lone delimiter.
CmdFairPeer ==
  \E b \in {slip_send(resp(1, cop, CHIP_ID_NONE, <<0, 0>>)), <<END>>} : DevSend(b)

CmdChatterNext == CmdProgram \/ CmdFairPeer \/ DevClose \/ DevChatter

SpecCmdFair == CmdInit /\ [][CmdChatterNext]_vars /\ WF_vars(CmdProgram)

\* ------------------------------------------- chip_connect (SpecConnect)
\* The values register 0x40001000 may hold: zero, two registered chip ids
\* and an id the registry does not know.
RegValues == {CHIP_ID_NONE, CHIP_ID_ESP8266, CHIP_ID_ESP32, <<2, 0, 0, 0>>}

\* The peer answers the pending request: a SYNC response, or a READ_REG
\* response carrying a register value, both with a zero status.
ConnAnswers(op) ==
  IF op = 8 THEN {slip_send(resp(1, 8, CHIP_ID_NONE, <<0, 0, 0, 0>>))}
  ELSE {slip_send(resp(1, 10, v, <<0, 0, 0, 0>>)) : v \in RegValues}

PeerAnswer(answers) ==
  /\ cst = "wait"
  /\ wire = <<>>
  /\ ~closed
  /\ \E b \in answers : wire' = b
  /\ UNCHANGED <<pc, slip, chip, cmdVars, trace, err, closed, nsent, codecVars, connVars,
                 flashVars>>
  /\ UNCHANGED <<monVars, disk, binVars>>

ConnPeerAnswer == PeerAnswer(ConnAnswers(cop))

\* The peer answers the pending request with an error status (at most
\* MaxBadAnswers times in a run).
ConnPeerError ==
  /\ cst = "wait"
  /\ wire = <<>>
  /\ ~closed
  /\ nsent < MaxBadAnswers
  /\ wire' = slip_send(resp(1, cop, CHIP_ID_NONE, <<1, 5, 1, 5>>))
  /\ nsent' = nsent + 1
  /\ UNCHANGED <<pc, slip, chip, cmdVars, trace, err, closed, codecVars, connVars, flashVars>>
  /\ UNCHANGED <<monVars, disk, binVars>>

\* The -chip options tried: none, a registry name (in lower case), the
\* reserved name, a name the registry does not have.
ChipOptions == {"", "esp8266", "Unknown", "ESP99"}

ConnInit ==
  /\ pc = "main"
  /\ slip = slip_new(SlipBufSize)
  /\ input = <<>> /\ pkts = <<>>
  /\ wire = <<>>
  /\ chip = s_known_chips[1]
  /\ cst = "idle" /\ cop = 0 /\ cret = 0 /\ frames = <<>> /\ taken = <<>>
  /\ trace = <<>> /\ err = "" /\ closed = FALSE /\ nsent = 0
  /\ optChip \in ChipOptions
  /\ platform = "unix"
  /\ count = 0 /\ j = 0 /\ i = 0
  /\ NoFlash
  /\ NoMonitor

\* read() returns everything that is buffered.
CmdReadAll == wire # <<>> /\ CmdRead(Len(wire))

ConnNext ==
  \/ MainOptions \/ ConnectStart \/ SyncOk \/ SyncFailed \/ DetectDone
  \/ CmdNoSerial \/ CmdReadAll
  \/ ConnPeerAnswer \/ ConnPeerError

SpecConnect == ConnInit /\ [][ConnNext]_vars

\* ------------------------------- chip_connect on a noisy line (SpecNoise)
\* What the chip may emit besides answers, up to MaxNoise times in a run: a
\* text byte, or the first bytes of a frame it never finishes (a delimiter
\* and a payload byte, a delimiter and the escape byte).
MaxNoise == 1

NoiseBytes == {<<65>>, <<END, 65>>, <<END, ESC>>}

BootNoise ==
  /\ cst = "wait"
  /\ wire = <<>>
  /\ ~closed
  /\ nsent < MaxNoise
  /\ \E b \in NoiseBytes : wire' = b
  /\ nsent' = nsent + 1
  /\ UNCHANGED <<pc, slip, chip, cmdVars, trace, err, closed, codecVars, connVars, flashVars>>
  /\ UNCHANGED <<monVars, disk, binVars>>

NoiseNext ==
  \/ MainOptions \/ ConnectStart \/ SyncOk \/ SyncFailed \/ DetectDone
  \/ CmdNoSerial \/ CmdReadAll
  \/ ConnPeerAnswer \/ BootNoise

SpecNoise == ConnInit /\ [][NoiseNext]_vars

\* ------------------------------------------------ flash session (SpecFlash)
\* The chips a flash session runs on: the descriptor a register value of 0
\* selects, the ESP8266, the ESP32 and the ESP32-S2.
FlashChips == {s_known_chips[k] : k \in {1, 2, 3, 6}}

\* The words after "flash": no file, two ADDR FILE pairs, two pairs with
\* the bootloader at offset 0, a .hex file followed by an empty file, a
\* pair followed by a single word, a file that does not exist.
FlashCommands ==
  { <<>>,
    <<"0x1000", "boot.bin", "0x10000", "app.bin">>,
    <<"0", "boot.bin", "0x10000", "small.bin">>,
    <<"fw.hex", "0", "empty.bin">>,
    <<"0x10000", "app.bin", "stray">>,
    <<"0x1000", "missing.bin">> }

\* The peer answers the pending request with a zero status; READ_FLASH_SLOW
\* is answered with 16 bytes of flash that start with the bootloader magic
\* and the flash parameters 0x0220, or with 16 zero bytes.
FlashAnswers(op) ==
  IF op = 14
  THEN { slip_send(resp(1, 14, CHIP_ID_NONE,
                        <<m, 2, 2, 32>> \o [k \in 1..12 |-> 0] \o <<0, 0, 0, 0>>))
         : m \in {233, 0} }
  ELSE { slip_send(resp(1, op, CHIP_ID_NONE, <<0, 0, 0, 0>>)) }

FlashPeerAnswer == PeerAnswer(FlashAnswers(cop))

\* A flash session from the return of chip_connect (true with one of
\* FlashChips as the current chip, or false), with or without -b 921600,
\* without -fp, with -fp 0x220 or with -fp 0.
FlashInit ==
  /\ pc \in {"connect_true", "connect_false"}
  /\ slip = slip_new(SlipBufSize)
  /\ input = <<>> /\ pkts = <<>>
  /\ wire = <<>>
  /\ chip \in FlashChips
  /\ cst = "idle" /\ cop = 0 /\ cret = 0 /\ frames = <<>> /\ taken = <<>>
  /\ trace = <<>> /\ err = "" /\ closed = FALSE /\ nsent = 0
  /\ optChip = "" /\ platform = "unix" /\ count = 0 /\ j = 0 /\ i = 0
  /\ baud \in {"115200", "921600"}
  /\ fpar \in {"", "0x220", "0"}
  /\ command \in FlashCommands
  /\ args = command
  /\ flist = <<>>
  /\ flash_params = 0 /\ flash_offset = 0 /\ fp = <<>> /\ seq = 0
  /\ NoMonitor

FlashNext ==
  \/ FlashStart \/ SetBaudDone \/ SpiAttach \/ SpiAttachDone \/ SpiSetParamsDone
  \/ ReadFlashParamsDone \/ FlashArgs \/ FlashHex \/ FlashBeginDone \/ FlashRead
  \/ FlashDataDone \/ FlashEndDone
  \/ CmdNoSerial \/ CmdReadAll
  \/ FlashPeerAnswer \/ ConnPeerError

SpecFlash == FlashInit /\ [][FlashNext]_vars

\* The steps of the program itself in a flash session.  They are weakly
\* fair: the process runs whenever it has a step that changes its state; the
\* peer is free to answer or not.
FlashProgram ==
  \/ FlashStart \/ SetBaudDone \/ SpiAttach \/ SpiAttachDone \/ SpiSetParamsDone
  \/ ReadFlashParamsDone \/ FlashArgs \/ FlashHex \/ FlashBeginDone \/ FlashRead
  \/ FlashDataDone \/ FlashEndDone
  \/ CmdNoSerial \/ CmdReadAll

SpecFlashFair == FlashInit /\ [][FlashNext]_vars /\ WF_vars(FlashProgram)

\* ------------------------------------------------ monitor (SpecMonitor)
\* The test that guards sendto() in monitor(): len, ctx->slip.mode and
\* ctx->sock after slip_recv has returned len.
monitor_sends(len, mode, sk) == len > 0 /\ mode # 0 /\ sk # 0

\* The loop over the bytes of one read() in monitor(): a byte goes to
\* standard output when slip_recv returned 0 and left the codec in
\* passthrough mode; when it returned a length and the guard holds,
\* ctx->slip.len bytes of the buffer are sent as a datagram.
\* [slip, stdout, dgrams, pkts (the frames slip_recv reported)]
RECURSIVE monitor_serial(_, _, _, _, _)
monitor_serial(chunk, s, o, d, p) ==
  IF chunk = <<>> THEN [slip |-> s, stdout |-> o, dgrams |-> d, pkts |-> p]
  ELSE CHOOSE res \in
         { monitor_serial(
             Tail(chunk), r.slip,
             IF r.res = 0 /\ r.slip.mode = 0 THEN Append(o, Head(chunk)) ELSE o,
             IF monitor_sends(r.res, r.slip.mode, sock)
             THEN Append(d, SubSeq(r.slip.buf, 1, r.slip.len)) ELSE d,
             IF r.res > 0 THEN Append(p, slip_packet(r.slip, r.res)) ELSE p)
           : r \in {slip_recv(Head(chunk), s)} } : TRUE

\* main() for the monitor command: the socket and the serial line are
\* opened, the handlers installed, the baud rate changed if it is not 115200.
MonitorStart ==
  /\ pc = "main_monitor"
  /\ trace' = IF atoi(baud) # 115200 THEN Append(trace, Ev("baud", atoi(baud)))
              ELSE trace
  /\ pc' = "monitor_loop"
  /\ UNCHANGED <<slip, wire, chip, cmdVars, err, closed, nsent, codecVars, connVars,
                 flashVars, monVars, disk, binVars>>

\* while (s_signo == 0) monitor(&ctx); close(ctx.fd); return 0;
monitor_continues_always(signo) == TRUE
monitor_continues(signo) == signo = 0

MonitorLoop ==
  /\ pc = "monitor_loop"
  /\ IF monitor_continues(s_signo)
     THEN pc' = "monitor" /\ UNCHANGED trace
     ELSE trace' = Append(trace, Ev("close", 0)) /\ pc' = "exit_success"
  /\ UNCHANGED <<slip, wire, chip, cmdVars, err, closed, nsent, codecVars, connVars,
                 flashVars, monVars, disk, binVars>>

\* One call of monitor(): iowait() for at most 1000 ms, then the serial
\* bytes (read() returns all that is buffered, or 0 on a closed line),
\* standard input (forwarded to the serial line) and one datagram (sent to
\* the serial line as a frame).
MonitorIter ==
  /\ pc = "monitor"
  /\ LET ready_serial == wire # <<>> \/ closed
         ready_sock == sock > 0 /\ sockin # <<>>
     IN  IF ready_serial /\ read_failed(Len(wire))
         THEN /\ fail("Serial line closed")
              /\ UNCHANGED <<slip, wire, pkts, stdout, dgrams, uart, kin, sockin>>
         ELSE /\ \E r \in {monitor_serial(wire, slip, stdout, dgrams, pkts)} :
                   /\ slip' = r.slip
                   /\ stdout' = r.stdout
                   /\ dgrams' = r.dgrams
                   /\ pkts' = r.pkts
              /\ wire' = <<>>
              /\ uart' = (uart \o kin) \o
                           (IF ready_sock /\ Head(sockin) # <<>>
                            THEN slip_send(Head(sockin)) ELSE <<>>)
              /\ kin' = <<>>
              /\ sockin' = IF ready_sock THEN Tail(sockin) ELSE sockin
              /\ pc' = "monitor_loop"
              /\ UNCHANGED err
  /\ UNCHANGED <<input, chip, cmdVars, trace, closed, nsent, connVars, flashVars,
                 s_signo, sock, disk, binVars>>

\* signal_handler(): SIGINT or SIGTERM is delivered while the loop runs.
SignalArrives ==
  /\ pc \in {"monitor_loop", "monitor"}
  /\ \E signo \in {2, 15} : s_signo' = signo
  /\ UNCHANGED <<pc, slip, wire, chip, cmdVars, trace, err, closed, nsent, codecVars,
                 connVars, flashVars, sock, kin, sockin, stdout, dgrams, uart, disk, binVars>>

\* The device writes the next bytes of its output (`input`: all the bytes
\* it will write, nsent: how many it has written) while monitor() waits.
MonDevWrite ==
  /\ pc = "monitor"
  /\ ~closed
  /\ \E n \in 1..(Len(input) - nsent) :
       /\ wire' = wire \o SubSeq(input, nsent + 1, nsent + n)
       /\ nsent' = nsent + n
  /\ UNCHANGED <<pc, slip, input, pkts, chip, cmdVars, trace, err, closed, connVars,
                 flashVars, monVars, disk, binVars>>

\* The byte values a monitored device writes: the delimiter, the escape
\* byte, an escaped delimiter and an ordinary byte.
MonBytes == {END, ESC, ESC_END, 65}

\* The surroundings of a monitor run: nothing but the serial line; a byte
\* typed, a datagram waiting and -b 921600; no socket (socket() failed).
MonEnvs ==
  { [sock |-> 3, kin |-> <<>>, sockin |-> <<>>, baud |-> "115200"],
    [sock |-> 3, kin |-> <<97>>, sockin |-> << <<END, 66>> >>, baud |-> "921600"],
    [sock |-> -1, kin |-> <<>>, sockin |-> <<>>, baud |-> "115200"] }

MonInit ==
  /\ pc = "main_monitor"
  /\ slip = slip_new(SlipBufSize)
  /\ input \in SeqsUpTo(MonBytes, MaxMonLen)
  /\ pkts = <<>>
  /\ wire = <<>>
  /\ chip = s_known_chips[1]
  /\ cst = "idle" /\ cop = 0 /\ cret = 0 /\ frames = <<>> /\ taken = <<>>
  /\ trace = <<>> /\ err = "" /\ closed = FALSE /\ nsent = 0
  /\ optChip = "" /\ platform = "unix" /\ count = 0 /\ j = 0 /\ i = 0
  /\ fpar = "" /\ command = <<>> /\ args = <<>> /\ flist = <<>>
  /\ flash_params = 0 /\ flash_offset = 0 /\ fp = <<>> /\ seq = 0
  /\ \E e \in MonEnvs :
       sock = e.sock /\ kin = e.kin /\ sockin = e.sockin /\ baud = e.baud
  /\ s_signo = 0 /\ stdout = <<>> /\ dgrams = <<>> /\ uart = <<>>
  /\ disk = NoDisk /\ NoBin

MonNext ==
  \/ MonitorStart \/ MonitorLoop \/ MonitorIter
  \/ SignalArrives \/ MonDevWrite \/ DevClose

SpecMonitor == MonInit /\ [][MonNext]_vars

\* ------------------------------------------------------ info (SpecInfo)
\* The registers info() reads for the chip: [efuse_base, reg_off_1,
\* reg_off_2, uart_clkdiv_reg], or none where info() returns early.
info_regs(chipid) ==
  IF chipid = CHIP_ID_ESP32_C3_ECO3
  THEN <<[efuse_base |-> 1610647552, reg_off_1 |-> 68, reg_off_2 |-> 72,
          uart_clkdiv_reg |-> 1610612756]>>
  ELSE IF chipid = CHIP_ID_ESP32_S2
  THEN <<[efuse_base |-> 1061265476, reg_off_1 |-> 68, reg_off_2 |-> 72,
          uart_clkdiv_reg |-> 1061158932]>>
  ELSE IF chipid = CHIP_ID_ESP32_S3_BETA3
  THEN <<[efuse_base |-> 1610641408, reg_off_1 |-> 68, reg_off_2 |-> 72,
          uart_clkdiv_reg |-> 1610612756]>>
  ELSE IF chipid = CHIP_ID_ESP32
  THEN <<[efuse_base |-> 1073061888, reg_off_1 |-> 4, reg_off_2 |-> 8,
          uart_clkdiv_reg |-> 1072955412]>>
  ELSE <<>>

\* read32(): cmd(READ_REG) with the address as its body.
read32(addr) == cmd_start_after(<<>>, 10, le32(addr), 0, 100)

\* info() up to its first request: chip_connect has returned; for a chip
\* without a register set info() returns, and main() returns 0.
InfoStart ==
  /\ pc \in {"connect_true", "connect_false"}
  /\ IF pc = "connect_false" THEN flash_fail("Error connecting")
     ELSE IF info_regs(chip.id) = <<>>
     THEN pc' = "exit_success" /\ UNCHANGED <<cmdVars, trace, err>>
     ELSE /\ read32(info_regs(chip.id)[1].efuse_base + info_regs(chip.id)[1].reg_off_1)
          /\ pc' = "info_mac0"
          /\ UNCHANGED err
  /\ UNCHANGED <<slip, wire, chip, closed, nsent, codecVars, connVars, flashVars,
                 monVars, disk, binVars>>

\* read32(mac0) has returned (its result is not tested): read32(mac1).
InfoMac0Done ==
  /\ pc = "info_mac0" /\ cst = "ret"
  /\ read32(info_regs(chip.id)[1].efuse_base + info_regs(chip.id)[1].reg_off_2)
  /\ pc' = "info_mac1"
  /\ UNCHANGED <<slip, wire, chip, err, closed, nsent, codecVars, connVars, flashVars,
                 monVars, disk, binVars>>

\* read32(mac1) has returned: read32(uart_clkdiv).
InfoMac1Done ==
  /\ pc = "info_mac1" /\ cst = "ret"
  /\ read32(info_regs(chip.id)[1].uart_clkdiv_reg)
  /\ pc' = "info_clkdiv"
  /\ UNCHANGED <<slip, wire, chip, err, closed, nsent, codecVars, connVars, flashVars,
                 monVars, disk, binVars>>

\* read32(uart_clkdiv) has returned: hard_reset, and main() returns 0.
InfoClkdivDone ==
  /\ pc = "info_clkdiv" /\ cst = "ret"
  /\ trace' = trace \o hard_reset
  /\ pc' = "exit_success" /\ cst' = "idle"
  /\ UNCHANGED <<slip, wire, chip, cop, cret, frames, taken, err, closed, nsent,
                 codecVars, connVars, flashVars, monVars, disk, binVars>>

\* The peer answers READ_REG with a register value and a zero status.
InfoPeerAnswer ==
  PeerAnswer({slip_send(resp(1, 10, <<120, 86, 52, 18>>, <<0, 0, 0, 0>>))})

\* An info command from the return of chip_connect, with each descriptor
\* of the registry as the current chip.
InfoInit ==
  /\ pc \in {"connect_true", "connect_false"}
  /\ slip = slip_new(SlipBufSize)
  /\ input = <<>> /\ pkts = <<>>
  /\ wire = <<>>
  /\ \E k \in 1..nchips : chip = s_known_chips[k]
  /\ cst = "idle" /\ cop = 0 /\ cret = 0 /\ frames = <<>> /\ taken = <<>>
  /\ trace = <<>> /\ err = "" /\ closed = FALSE /\ nsent = 0
  /\ NoConnect

InfoNext ==
  \/ InfoStart \/ InfoMac0Done \/ InfoMac1Done \/ InfoClkdivDone
  \/ CmdNoSerial \/ CmdReadAll
  \/ InfoPeerAnswer \/ ConnPeerError

SpecInfo == InfoInit /\ [][InfoNext]_vars

\* ------------------------------------------ reset_strategy (SpecReset)
\* Successive calls of reset_strategy on either build, one line operation
\* at a time.  The call in progress is the last "reset" event of the trace.
ResetCalls == {k \in 1..Len(trace) : trace[k].k = "reset"}
LastResetCall == CHOOSE k \in ResetCalls : \A m \in ResetCalls : m <= k
ResetPending ==
  IF ResetCalls = {} THEN <<>>
  ELSE LET recipe == reset_recipe(platform, trace[LastResetCall].a)
           done == Len(trace) - LastResetCall
       IN  SubSeq(recipe, done + 1, Len(recipe))

\* reset_strategy() is entered: the wrap test selects the recipe, the
\* counter is incremented (++count).
ResetCall ==
  /\ pc = "reset"
  /\ ResetPending = <<>>
  /\ Cardinality(ResetCalls) < MaxResets
  /\ trace' = Append(trace, Ev("reset", reset_wrap(platform, count)))
  /\ count' = reset_wrap(platform, count) + 1
  /\ UNCHANGED <<pc, slip, wire, chip, cmdVars, err, closed, nsent, codecVars,
                 optChip, platform, j, i, flashVars, monVars, disk, binVars>>

\* The next line operation of the selected recipe.
ResetStep ==
  /\ pc = "reset"
  /\ ResetPending # <<>>
  /\ trace' = Append(trace, Head(ResetPending))
  /\ UNCHANGED <<pc, slip, wire, chip, cmdVars, err, closed, nsent, codecVars,
                 connVars, flashVars, monVars, disk, binVars>>

ResetInit ==
  /\ pc = "reset"
  /\ slip = slip_new(SlipBufSize)
  /\ input = <<>> /\ pkts = <<>>
  /\ wire = <<>>
  /\ chip = s_known_chips[1]
  /\ cst = "idle" /\ cop = 0 /\ cret = 0 /\ frames = <<>> /\ taken = <<>>
  /\ trace = <<>> /\ err = "" /\ closed = FALSE /\ nsent = 0
  /\ optChip = "" /\ platform \in {"unix", "win32"} /\ count = 0 /\ j = 0 /\ i = 0
  /\ NoFlash
  /\ NoMonitor

ResetNext == ResetCall \/ ResetStep

SpecReset == ResetInit /\ [][ResetNext]_vars

\* --------------------------------------------- mkhex and unhex (SpecHex)
\* Text is a sequence of character codes.
CH_NL == 10
CH_COLON == 58

\* printf("%02x") .. ("%04x"): lowercase hexadecimal digits, zero padded.
hexdigit(d) == IF d < 10 THEN 48 + d ELSE 87 + d
fmt02x(v) == <<hexdigit((v \div 16) % 16), hexdigit(v % 16)>>
fmt04x(v) == fmt02x((v \div 256) % 256) \o fmt02x(v % 256)

\* hex_to_ul(): '0'..'9' count c - '0', 'A'..'F' count c - '7', every other
\* character counts c - 'W'; each digit is OR-ed into the value shifted
\* left by four (a sum for digit values 0..15).
RECURSIVE hex_to_ul(_)
hex_to_ul(s) ==
  IF s = <<>> THEN 0
  ELSE LET c == s[Len(s)]
           d == IF c >= 48 /\ c <= 57 THEN c - 48
                ELSE IF c >= 65 /\ c <= 70 THEN c - 55 ELSE c - 87
       IN  16 * hex_to_ul(SubSeq(s, 1, Len(s) - 1)) + d

RECURSIVE SumSeq(_)
SumSeq(s) == IF s = <<>> THEN 0 ELSE Head(s) + SumSeq(Tail(s))
RECURSIVE fmt_bytes(_)
fmt_bytes(s) == IF s = <<>> THEN <<>> ELSE fmt02x(Head(s)) \o fmt_bytes(Tail(s))

\* printhexline(): one record ":llaaaatt<data>cc\n"; cc is the two's
\* complement of the sum of the other fields.
printhexline(type, addr, buf) ==
  LET len == Len(buf)
      cs == type + len + ((addr \div 256) % 256) + (addr % 256) + SumSeq(buf)
  IN  <<CH_COLON>> \o fmt02x(len) \o fmt04x(addr % 65536) \o fmt02x(type)
      \o fmt_bytes(buf) \o fmt02x((256 - (cs % 256)) % 256) \o <<CH_NL>>

\* printhexhiaddrline(): the type-4 record with bits 31..16 of addr.
printhexhiaddrline(addr) ==
  printhexline(4, 0, <<(addr \div 16777216) % 256, (addr \div 65536) % 256>>)

\* The test that makes mkhex emit a type-4 record before a data record.
mkhex_hiaddr(addr) == addr >= 65535 /\ addr % 65536 = 0

\* The read loop of mkhex() over one file: a record for every 16 bytes
\* read and one for what is left at end of file; at end of file with
\* nothing left only the type-4 test is made.
RECURSIVE mkhex_records(_, _)
mkhex_records(addr, bytes) ==
  LET n == IF Len(bytes) < 16 THEN Len(bytes) ELSE 16
      hi == IF mkhex_hiaddr(addr) THEN printhexhiaddrline(addr) ELSE <<>>
      rec == IF n > 0 THEN printhexline(0, addr % 65536, SubSeq(bytes, 1, n)) ELSE <<>>
  IN  IF n < 16 THEN hi \o rec
      ELSE (hi \o rec) \o mkhex_records(addr + n, SubSeq(bytes, n + 1, Len(bytes)))

\* mkhex() for one ADDR FILE pair: the type-4 record of the start address,
\* the records of the file, the end-of-file record.
mkhex(addr, bytes) ==
  printhexhiaddrline(addr) \o mkhex_records(addr, bytes) \o printhexline(1, 0, <<>>)

\* The lines unhex() assembles in tmp: the characters that are not white
\* space, up to each '\n' (no line of mkhex reaches sizeof(tmp)); what
\* follows the last '\n' is never processed.
isspace(c) == c \in {32, 9, 10, 11, 12, 13}
unhex_split(text) ==
  LET nls == {k \in 1..Len(text) : text[k] = CH_NL}
      nth(m) == CHOOSE k \in nls : Cardinality({x \in nls : x <= k}) = m
      start(m) == IF m = 1 THEN 1 ELSE nth(m - 1) + 1
  IN  [m \in 1..Cardinality(nls) |->
         SelectSeq(SubSeq(text, start(m), nth(m)), LAMBDA c : ~isspace(c))]

RECURSIVE unhex_bytes(_)
unhex_bytes(s) ==
  IF Len(s) < 2 THEN <<>>
  ELSE <<hex_to_ul(SubSeq(s, 1, 2))>> \o unhex_bytes(SubSeq(s, 3, Len(s)))

\* The test that makes unhex() open a new file for a data record:
\* out == NULL || next != addr.
unhex_new_file_always(out_file, next, addr) == TRUE
unhex_new_file(out_file, next, addr) == out_file = <<>> \/ next # addr

\* The body of unhex()'s loop for one assembled line of at least nine
\* characters (the fields are read before the line is validated).
unhex_line(tmp, st) ==
  LET n == Len(tmp)
      len == hex_to_ul(SubSeq(tmp, 2, 3))
      lower == hex_to_ul(SubSeq(tmp, 4, 7))
      type == hex_to_ul(SubSeq(tmp, 8, 9))
      addr == st.upper + lower
  IN  IF n < 9 THEN [st EXCEPT !.err = "short line"]
      ELSE IF tmp[1] # CH_COLON THEN [st EXCEPT !.err = "no colon"]
      ELSE IF n # 1 + 2 + 4 + 2 + len * 2 + 2 THEN [st EXCEPT !.err = "len"]
      ELSE IF type = 0
      THEN LET fresh == unhex_new_file(st.out, st.next, addr)
               k == IF fresh THEN Len(st.list) + 1 ELSE st.out[1]
               old == IF fresh THEN <<>> ELSE st.data[k]
               bytes == unhex_bytes(SubSeq(tmp, 10, 9 + 2 * len))
               \* fopen(path, "wb") empties a file of the same name
               kept == [x \in 1..Len(st.data) |->
                          IF fresh /\ st.list[x] = addr THEN <<>> ELSE st.data[x]]
           IN  [st EXCEPT !.list = IF fresh THEN Append(st.list, addr) ELSE st.list,
                          !.data = IF fresh THEN Append(kept, bytes)
                                   ELSE [kept EXCEPT ![k] = old \o bytes],
                          !.out = <<k>>,
                          !.next = addr + len]
      ELSE IF type = 1 THEN [st EXCEPT !.out = <<>>]
      ELSE IF type = 4
      THEN [st EXCEPT !.upper = hex_to_ul(SubSeq(tmp, 10, 13)) * 65536]
      ELSE st

RECURSIVE unhex_lines(_, _)
unhex_lines(lines, st) ==
  IF lines = <<>> \/ st.err # "" THEN st
  ELSE \* bind the new state once
       CHOOSE r \in {unhex_lines(Tail(lines), s1) : s1 \in {unhex_line(Head(lines), st)}} : TRUE

\* unhex() on the text of a hex file, into an empty directory.
unhex_text(text) == unhex_lines(unhex_split(text), NoDisk)

\* The start addresses and the lengths of the files of a run.
HexAddrs == {0, 65536, 65537, 131056, 131064, 131071, 131072, 196608 - 20}
HexByte(k) == (37 * k + 11) % 256
HexFile(n) == [k \in 1..n |-> HexByte(k)]

\* mkhex ADDR FILE > hexfile.
Mkhex ==
  /\ pc = "mkhex"
  /\ stdout' = mkhex(flash_offset, fp)
  /\ pc' = "unhex"
  /\ UNCHANGED <<slip, wire, chip, cmdVars, trace, err, closed, nsent, codecVars,
                 connVars, flashVars, s_signo, sock, kin, sockin, dgrams, uart, disk, binVars>>

\* unhex hexfile.
Unhex ==
  /\ pc = "unhex"
  /\ \E r \in {unhex_text(stdout)} :
       /\ disk' = r
       /\ IF r.err # "" THEN fail(r.err)
          ELSE pc' = "exit_success" /\ UNCHANGED err
  /\ UNCHANGED <<slip, wire, chip, cmdVars, trace, closed, nsent, codecVars,
                 connVars, flashVars, monVars, binVars>>

HexInit ==
  /\ pc = "mkhex"
  /\ slip = slip_new(SlipBufSize)
  /\ input = <<>> /\ pkts = <<>>
  /\ wire = <<>>
  /\ chip = s_known_chips[1]
  /\ cst = "idle" /\ cop = 0 /\ cret = 0 /\ frames = <<>> /\ taken = <<>>
  /\ trace = <<>> /\ err = "" /\ closed = FALSE /\ nsent = 0
  /\ optChip = "" /\ platform = "unix" /\ count = 0 /\ j = 0 /\ i = 0
  /\ baud = "115200" /\ fpar = "" /\ command = <<>> /\ args = <<>> /\ flist = <<>>
  /\ flash_params = 0 /\ seq = 0
  /\ flash_offset \in HexAddrs
  /\ \/ \E n \in 0..MaxHexLen : fp = HexFile(n)
     \/ fp = <<170, 187>>
  /\ NoMonitor

HexNext == Mkhex \/ Unhex

SpecHex == HexInit /\ [][HexNext]_vars

\* ------------------------------------------- unhex on any text (SpecUnhex)
\* The records a hex file of a run is made of: two-byte data records at
\* four offsets, the type-4 records for the upper halves 0 and 1, and a
\* type-1 record; a file is up to MaxRecs of them and a closing type-1
\* record.
UnhexRecs ==
  { printhexline(0, 0, <<170, 187>>), printhexline(0, 2, <<204, 221>>),
    printhexline(0, 4, <<238, 255>>), printhexline(0, 65534, <<17, 34>>),
    printhexline(4, 0, <<0, 0>>), printhexline(4, 0, <<0, 1>>),
    printhexline(1, 0, <<>>) }
RECURSIVE UnhexTexts(_)
UnhexTexts(n) ==
  IF n = 0 THEN {<<>>}
  ELSE UnhexTexts(n - 1) \cup {t \o r : t \in UnhexTexts(n - 1), r \in UnhexRecs}

UnhexInit ==
  /\ pc = "unhex"
  /\ slip = slip_new(SlipBufSize)
  /\ input = <<>> /\ pkts = <<>>
  /\ wire = <<>>
  /\ chip = s_known_chips[1]
  /\ cst = "idle" /\ cop = 0 /\ cret = 0 /\ frames = <<>> /\ taken = <<>>
  /\ trace = <<>> /\ err = "" /\ closed = FALSE /\ nsent = 0
  /\ optChip = "" /\ platform = "unix" /\ count = 0 /\ j = 0 /\ i = 0
  /\ NoFlash
  /\ s_signo = 0 /\ sock = 3 /\ kin = <<>> /\ sockin = <<>>
  /\ \E t \in UnhexTexts(MaxRecs) : stdout = t \o printhexline(1, 0, <<>>)
  /\ dgrams = <<>> /\ uart = <<>> /\ disk = NoDisk /\ NoBin

SpecUnhex == UnhexInit /\ [][Unhex]_vars

\* ------------------------------------------------------ mkbin (SpecMkbin)
\* align_to(): n rounded up to a multiple of `to`.
align_to_down(n, to) == (n \div to) * to
align_to(n, to) == ((n + to - 1) \div to) * to

\* A program header is [p_vaddr, data]: data stands for the p_filesz bytes
\* at p_offset.  elf_get_phdr(): the table entry `no`, or `no` + 1 when the
\* first entry is empty; an index past the table reads what lies behind
\* it.  The index read is returned with the header.
elf_get_phdr_index(e, no) == IF e.phdrs[1].data = <<>> THEN no + 1 ELSE no
elf_get_phdr(e, no, behind) ==
  IF elf_get_phdr_index(e, no) < Len(e.phdrs)
  THEN e.phdrs[elf_get_phdr_index(e, no) + 1]
  ELSE behind

\* The 24 bytes before the segments: common header, entry point, extended
\* header (its first byte is 0 for the ESP32-S2).
mkbin_header(e, chipid) ==
  <<233, Len(e.phdrs) % 256, 0, 0>> \o le32(e.e_entry)
  \o <<IF chipid = CHIP_ID_ESP32_S2 THEN 0 ELSE 238, 0, 0, 0, 2, 0, 0, 0,
       0, 0, 0, 0, 0, 0, 0, 0>>

\* One iteration of the segment loop: load address, aligned size, the
\* bytes, zeros up to the aligned size.
mkbin_segment(h) ==
  le32(h.p_vaddr) \o le32(align_to(Len(h.data), 4)) \o h.data
  \o [k \in 1..(align_to(Len(h.data), 4) - Len(h.data)) |-> 0]

\* The segment loop: what it writes and the checksum it folds.
RECURSIVE mkbin_loop(_, _, _, _)
mkbin_loop(e, behind, no, acc) ==
  IF no >= Len(e.phdrs) % 256 THEN acc
  ELSE LET h == elf_get_phdr(e, no, behind)
       IN  mkbin_loop(e, behind, no + 1,
                      [out |-> acc.out \o mkbin_segment(h),
                       cs |-> checksum2(acc.cs, h.data)])

\* The end of the image: zeros up to the last byte of a 16-byte row, then
\* the checksum.
mkbin_tail(ofs, cs) ==
  [k \in 1..(align_to(ofs + 1, 16) - ofs - 1) |-> 0] \o <<cs>>

mkbin_image(e, chipid, behind) ==
  LET body == mkbin_loop(e, behind, 0, [out |-> mkbin_header(e, chipid), cs |-> 239])
  IN  body.out \o mkbin_tail(Len(body.out), body.cs)

\* The program headers of a run, and what may lie behind the table (an
\* index past the table is read as a header whose offset may point outside
\* the file: the process is killed before anything reaches the image file).
ElfPhdrs ==
  { [p_vaddr |-> 1073414144, data |-> <<>>],
    [p_vaddr |-> 1073414144, data |-> <<97, 98, 99, 100>>],
    [p_vaddr |-> 1074266112, data |-> <<104, 101, 108, 108, 111>>],
    [p_vaddr |-> 1074266112, data |-> <<239>>],
    [p_vaddr |-> 1074200576, data |-> <<1, 2, 3, 4, 5, 6, 7, 8, 9, 10, 11>>] }
BehindTable ==
  { [crash |-> TRUE, p_vaddr |-> 0, data |-> <<>>],
    [crash |-> FALSE, p_vaddr |-> 0, data |-> <<>>],
    [crash |-> FALSE, p_vaddr |-> 67305985, data |-> <<222, 173, 190>>] }

\* mkbin ELF BIN: the image file is created, the ELF class is tested, the
\* image is written.  The trace records the index of every program header
\* read.
Mkbin ==
  /\ pc = "mkbin"
  /\ IF elf.class # 1
     THEN /\ fail("Not ELF32")
          /\ bin' = <<>>
          /\ UNCHANGED trace
     ELSE \E g \in BehindTable :
            LET nseg == Len(elf.phdrs) % 256
                past == nseg > 0 /\ elf_get_phdr_index(elf, nseg - 1) >= Len(elf.phdrs)
            IN  /\ trace' = [k \in 1..nseg |-> Ev("phdr", elf_get_phdr_index(elf, k - 1))]
                /\ IF past /\ g.crash
                   THEN pc' = "crash" /\ bin' = <<>>
                   ELSE pc' = "exit_success" /\ bin' = mkbin_image(elf, chip.id, g)
                /\ UNCHANGED err
  /\ UNCHANGED <<slip, wire, chip, cmdVars, closed, nsent, codecVars,
                 connVars, flashVars, monVars, disk, elf>>

MkbinInit ==
  /\ pc = "mkbin"
  /\ slip = slip_new(SlipBufSize)
  /\ input = <<>> /\ pkts = <<>>
  /\ wire = <<>>
  /\ chip \in {s_known_chips[1], s_known_chips[6]}
  /\ cst = "idle" /\ cop = 0 /\ cret = 0 /\ frames = <<>> /\ taken = <<>>
  /\ trace = <<>> /\ err = "" /\ closed = FALSE /\ nsent = 0
  /\ optChip = "" /\ platform = "unix" /\ count = 0 /\ j = 0 /\ i = 0
  /\ NoFlash
  /\ s_signo = 0 /\ sock = 3 /\ kin = <<>> /\ sockin = <<>>
  /\ stdout = <<>> /\ dgrams = <<>> /\ uart = <<>> /\ disk = NoDisk
  /\ \E c \in {1, 2}, ph \in SeqsUpTo(ElfPhdrs, MaxSegs) :
       elf = [class |-> c, e_entry |-> 1074266112, phdrs |-> ph]
  /\ bin = <<>>

SpecMkbin == MkbinInit /\ [][Mkbin]_vars

\* ------------------------------------- end of file on the line (SpecEof)
\* A session of requests (info) and a monitor session, each on a line the
\* peer may close at any moment.
EofInit == InfoInit \/ MonInit

EofNext == InfoNext \/ CmdEof \/ MonNext

SpecEof == EofInit /\ [][EofNext]_vars

\* C1 (as stated): every input shorter than the buffer capacity, the empty
\* one included, comes back as exactly one reported packet equal to it.
C1_RoundTripAll ==
  (pc = "decoded" /\ Len(input) < slip.size) => pkts = <<input>>

\* C1 (amended): every non-empty input shorter than the buffer capacity
\* comes back as exactly one reported packet equal to it; the empty input
\* is reported as no packet at all (slip_recv returns 0 for it).
C1_RoundTrip ==
  (pc = "decoded" /\ Len(input) < slip.size) =>
     IF input = <<>> THEN pkts = <<>> ELSE pkts = <<input>>

C1_Witness ==
  /\ pc = "decoded"
  /\ input = <<END, ESC, 65>>
  /\ slip.size = 4
  /\ pkts = <<input>>

\* C2: whatever the peer does, a call of cmd() eventually comes back (or the
\* program exits through fail()).
C2_CmdEventuallyReturns == <>(cst = "ret" \/ pc = "exit_failure")

\* The acceptance test of C3, stated on a frame.
IsResponseTo(f, op) == Len(f) >= 10 /\ f[1] = 1 /\ f[2] = op

\* C3: the frame cmd() takes as the response has at least 10 bytes and
\* starts with (0x01, op); no other assembled frame ends the call: while a
\* call has taken no frame, every frame assembled so far fails that test,
\* and the call has either not returned or returned the timeout value 1.
C3_AcceptsOnlyResponse ==
  /\ taken # <<>> =>
       /\ IsResponseTo(taken, cop)
       /\ cst = "ret"
       /\ frames # <<>> /\ frames[Len(frames)] = taken
       /\ \A k \in 1..(Len(frames) - 1) : ~IsResponseTo(frames[k], cop)
  /\ taken = <<>> =>
       /\ \A k \in 1..Len(frames) : ~IsResponseTo(frames[k], cop)
       /\ cst = "ret" => cret = 1

C3_Witness ==
  /\ Len(frames) = 2
  /\ Len(frames[1]) = 9
  /\ taken = frames[2]
  /\ cst = "ret"

\* The status of frame f read at 0-based offset `off`.
StatusAt(f, off) == IF f[off + 1] # 0 THEN f[off + 2] ELSE 0

\* C4 (as stated): the status is read at len-2 for ESP8266 and at len-4 for
\* every other current chip, the unknown descriptor (id 0) included.
C4_StatusOffsetAsStated ==
  taken # <<>> =>
     cret = StatusAt(taken, IF chip.id = CHIP_ID_ESP8266 THEN Len(taken) - 2
                            ELSE Len(taken) - 4)

\* C4 (amended): the status is read at len-2 when the current chip is
\* ESP8266 or the unknown descriptor (id 0), and at len-4 for every other
\* current chip.
C4_StatusOffset ==
  taken # <<>> =>
     cret = StatusAt(taken, IF chip.id \in {CHIP_ID_ESP8266, CHIP_ID_NONE}
                            THEN Len(taken) - 2 ELSE Len(taken) - 4)

C4_Witness ==
  /\ cst = "ret"
  /\ chip.id = CHIP_ID_NONE
  /\ taken = resp(1, cop, CHIP_ID_NONE, <<1, 6, 0, 0>>)
  /\ cret = 0

\* ---- trace observers used by the claims about chip_connect
IsSync(e) == e.k = "cmd" /\ e.a = 8
SyncIdx == {k \in 1..Len(trace) : IsSync(trace[k])}
ResetIdx == {k \in 1..Len(trace) : trace[k].k = "reset"}
\* Among the requests at indices S: those whose call has returned a
\* non-zero / a zero value.
Failed(S) == {k \in S : k < Len(trace) /\ trace[k + 1].k = "ret" /\ trace[k + 1].a # 0}
Succeeded(S) == {k \in S : k < Len(trace) /\ trace[k + 1].k = "ret" /\ trace[k + 1].a = 0}

\* C5: at most six reset rounds, round j issues at most 2 + j SYNC requests,
\* at most 27 in all; chip_connect returns false only after 27 failed SYNC
\* requests, and once 27 have failed it is at the last attempt of the last
\* round with nothing left to do but return false.
C5_AttemptBudget ==
  LET S == SyncIdx
      R == ResetIdx
      nfailed == Cardinality(Failed(S))
      \* the SYNC requests of the round that the reset at index r begins
      RoundSyncs(r) == {k \in S : k > r /\ \A q \in R : q > r => k < q}
      RoundNo(r) == Cardinality({q \in R : q < r})
  IN  /\ Cardinality(R) <= 6
      /\ \A r \in R : Cardinality(RoundSyncs(r)) <= 2 + RoundNo(r)
      /\ Cardinality(S) <= 27
      /\ pc = "connect_false" => (nfailed = 27 /\ Cardinality(R) = 6)
      /\ nfailed = 27 =>
           \/ pc = "connect_false"
           \/ pc = "sync" /\ cst = "ret" /\ cret # 0 /\ j = 5 /\ i = 6
      /\ (pc = "sync" /\ cst = "ret" /\ cret # 0 /\ nfailed < 27) => (j < 5 \/ i < 6)

C5_Witness ==
  /\ pc = "connect_false"
  /\ Cardinality(SyncIdx) = 27
  /\ \E k \in SyncIdx : trace[k + 1].a = 5

\* C6: after the first SYNC request that succeeded the program does, in
\* this order and nothing else: sleep 50 ms, flush, one READ_REG of
\* 0x40001000 (and gets its result); chip_connect never returns false then,
\* and it has returned true only after that READ_REG returned 0.
AfterSyncOk ==
  << Ev("sleep", 50), Ev("flush", 0), EvCmd(10, <<0, 16, 0, 64>>, 0, 100) >>

C6_AfterSyncSuccess ==
  LET ok == Succeeded(SyncIdx)
  IN  /\ ok # {} =>
           LET first == CHOOSE k \in ok : \A m \in ok : k <= m
               rest == SubSeq(trace, first + 2, Len(trace))
           IN  /\ Len(rest) <= 4
               /\ \A k \in 1..Len(rest) :
                    IF k <= 3 THEN rest[k] = AfterSyncOk[k] ELSE rest[k].k = "ret"
               /\ pc # "connect_false"
               /\ pc = "connect_true" => (Len(rest) = 4 /\ rest[4].a = 0)
               /\ (pc = "sync" /\ cst = "ret") => Len(rest) = 0
      /\ pc = "connect_true" => ok # {}

C6_Witness ==
  /\ pc = "connect_true"
  /\ Cardinality(SyncIdx) = 4
  /\ Cardinality(ResetIdx) = 2

\* C7: after chip_connect has returned true the current chip descriptor is
\* never the reserved "Unknown" one.
C7_NeverUnknown ==
  pc = "connect_true" => (chip.name # "Unknown" /\ chip.id # CHIP_ID_NONE)

\* ---- observers used by the claims about detection
\* Detection has read a register value: READ_REG was answered with status 0.
Detected == pc \in {"connect_true", "exit_failure"} /\ cop = 10 /\ taken # <<>> /\ cret = 0
DetectedId == SubSeq(taken, 5, 8)
Registry == {s_known_chips[k] : k \in 1..nchips}
\* The registry descriptors the -chip NAME lookup accepts NAME for.
Preselected == {c \in Registry : FoldCase(c.name) = FoldCase(optChip)}
MismatchMsg == "Chip specified does not match chip detected"

\* C8 (as stated): for every -chip NAME the lookup accepts, a detected id
\* that differs from the pre-selected one fails the session with the
\* mismatch message and leaves the current chip descriptor unreplaced.
C8_MismatchAsStated ==
  \A c \in Preselected :
    (optChip # "" /\ Detected /\ DetectedId # c.id) =>
       (pc = "exit_failure" /\ err = MismatchMsg /\ chip = c)

\* C8 (amended): for every -chip NAME the lookup accepts other than the
\* reserved "Unknown" (id 0), a detected id that differs from the
\* pre-selected one fails the session and leaves the current chip descriptor
\* unreplaced; the diagnostic is the mismatch message when the detected id is
\* in the registry and the unknown-chip message when it is not.
C8_Mismatch ==
  \A c \in Preselected :
    (optChip # "" /\ c.id # CHIP_ID_NONE /\ Detected /\ DetectedId # c.id) =>
       /\ pc = "exit_failure"
       /\ chip = c
       /\ err = IF \E d \in Registry : d.id = DetectedId
                THEN MismatchMsg ELSE "Unknown chip ID"

C8_Witness ==
  /\ optChip = "esp8266"
  /\ Detected
  /\ DetectedId = CHIP_ID_ESP32
  /\ pc = "exit_failure"
  /\ err = MismatchMsg
  /\ chip.name = "ESP8266"

\* ---- observers used by the claims about the flash session
\* The value of four little-endian bytes.
u32(b) == b[1] + 256 * b[2] + 65536 * b[3] + 16777216 * b[4]

\* The files a command line names, in order, each with its target offset.
RECURSIVE FilesOf(_)
FilesOf(a) ==
  IF a = <<>> THEN <<>>
  ELSE IF has_suffix(a[1], ".hex")
  THEN [k \in 1..Len(unhex(a[1])) |->
          [offset |-> strtoul(basename(unhex(a[1])[k])), path |-> unhex(a[1])[k]]]
       \o FilesOf(Tail(a))
  ELSE IF Len(a) >= 2
  THEN <<[offset |-> strtoul(a[1]), path |-> a[2]]>> \o FilesOf(Tail(Tail(a)))
  ELSE <<>>

\* The requests of the trace, and whether the request at index k returned 0.
CmdIdx == {k \in 1..Len(trace) : trace[k].k = "cmd"}
OpIdx(op) == {k \in CmdIdx : trace[k].a = op}
CmdOk(k) == k < Len(trace) /\ trace[k + 1] = Ev("ret", 0)

\* C9: the requests of a flash session are sent in this order.  On the
\* ESP8266 neither SPI_ATTACH (13) nor SPI_SET_PARAMS (11) is sent; on any
\* other chip a successful SPI_ATTACH and then a successful SPI_SET_PARAMS
\* precede the first FLASH_BEGIN (2).  The k-th FLASH_BEGIN announces the
\* offset and the size of the k-th file of the command line, is sent only
\* after every block of the files before it has been written, and is
\* followed only by FLASH_DATA (3) requests until the next FLASH_BEGIN or
\* FLASH_END (4).  Every FLASH_DATA follows a successful FLASH_BEGIN and the
\* successful FLASH_DATA of the blocks before it, and carries the next
\* block of that file.  FLASH_END is sent at most once, after every block
\* of every file has been written; no request follows it, only its result
\* and then the hard-reset line sequence, with which a session ends.
C9_FlashOrder ==
  LET begins == OpIdx(2)
      datas == OpIdx(3)
      ends == OpIdx(4)
      files == FilesOf(command)
      rank(b) == Cardinality({x \in begins : x <= b})
      dataOf(b) == {d \in datas : b < d /\ \A x \in begins : x <= d => x <= b}
      bytesOf(b) == fopen(files[rank(b)].path).data
      blocksOf(b) == (Len(bytesOf(b)) + BlockSize - 1) \div BlockSize
      rest(e) == SubSeq(trace, e + 1, Len(trace))
  IN  /\ chip.id = CHIP_ID_ESP8266 => OpIdx(13) = {} /\ OpIdx(11) = {}
      /\ chip.id # CHIP_ID_ESP8266 =>
           \A b \in begins : \E a \in OpIdx(13), p \in OpIdx(11) :
              a < p /\ p < b /\ CmdOk(a) /\ CmdOk(p)
      /\ \A b \in begins :
           /\ rank(b) <= Len(files)
           /\ u32(SubSeq(trace[b].d, 13, 16)) = files[rank(b)].offset
           /\ u32(SubSeq(trace[b].d, 1, 4)) = Len(bytesOf(b))
           /\ \A x \in begins : x < b => CmdOk(x) /\ Cardinality(dataOf(x)) = blocksOf(x)
           /\ \A x \in CmdIdx : x > b => trace[x].a \in {2, 3, 4}
      /\ \A d \in datas : \E b \in begins :
           /\ d \in dataOf(b) /\ CmdOk(b)
           /\ \A x \in dataOf(b) : x < d => CmdOk(x)
           /\ LET m == Cardinality({x \in dataOf(b) : x < d})
                  blk == SubSeq(trace[d].d, 17, Len(trace[d].d))
              IN  /\ m < blocksOf(b)
                  /\ Len(blk) = IF m + 1 < blocksOf(b) THEN BlockSize
                                ELSE Len(bytesOf(b)) - m * BlockSize
                  /\ \A k \in 1..Len(blk) :
                       k \notin {3, 4, 9, 13} => blk[k] = bytesOf(b)[m * BlockSize + k]
      /\ \A e \in ends :
           /\ ends = {e}
           /\ \A x \in CmdIdx : x <= e
           /\ Cardinality(begins) = Len(files)
           /\ \A b \in begins : CmdOk(b) /\ Cardinality(dataOf(b)) = blocksOf(b)
           /\ \A d \in datas : CmdOk(d)
           /\ \/ rest(e) = <<>>
              \/ Len(rest(e)) = 1 /\ rest(e)[1].k = "ret"
              \/ rest(e) = <<Ev("ret", 0)>> \o hard_reset
      /\ pc = "exit_success" =>
           \E e \in ends : rest(e) = <<Ev("ret", 0)>> \o hard_reset

\* C9 witness: a session on the ESP32 has flashed two files, three blocks
\* in all, and has ended with FLASH_END and the hard reset.
C9_Witness ==
  /\ pc = "exit_success"
  /\ chip.id = CHIP_ID_ESP32
  /\ Cardinality(OpIdx(2)) = 2
  /\ Cardinality(OpIdx(3)) = 3
  /\ OpIdx(13) # {} /\ OpIdx(4) # {}

\* The sequence number a FLASH_DATA request carries (bytes 4..7 of its body).
SeqOf(d) == u32(SubSeq(trace[d].d, 5, 8))

\* C10: the FLASH_DATA requests sent for one file (those that follow its
\* FLASH_BEGIN, up to the next FLASH_BEGIN) carry the sequence numbers
\* 0, 1, 2, ... in transmission order.
C10_SeqNumbers ==
  LET begins == OpIdx(2)
      datas == OpIdx(3)
      sameFile(x, d) == \A b \in begins : (b < d) = (b < x)
  IN  \A d \in datas :
        SeqOf(d) = Cardinality({x \in datas : x < d /\ sameFile(x, d)})

\* C10 witness: a block numbered 1 has been sent for one file and, later,
\* a block numbered 0 and then a block numbered 1 for another file.
C10_Witness ==
  \E d1, d2, d3 \in OpIdx(3) :
     /\ d1 < d2 /\ d2 < d3
     /\ SeqOf(d1) = 1 /\ SeqOf(d2) = 0 /\ SeqOf(d3) = 1

\* ---- observers of the FLASH_DATA requests of the trace
\* The FLASH_BEGIN that opened the file a FLASH_DATA request d belongs to.
BeginOf(d) == CHOOSE b \in OpIdx(2) : b < d /\ \A x \in OpIdx(2) : x < d => x <= b
\* The file of the command line the FLASH_BEGIN at b was sent for.
FileAt(b) == FilesOf(command)[Cardinality({x \in OpIdx(2) : x <= b})]
\* The payload of a FLASH_DATA request: its body after the 16-byte prefix.
PayloadOf(d) == SubSeq(trace[d].d, 17, Len(trace[d].d))
\* The first blocks sent to the bootloader offset of the current chip.
BootBlocks == {d \in OpIdx(3) : SeqOf(d) = 0 /\ FileAt(BeginOf(d)).offset = chip.bla}

\* C11 (as stated): in the first block of a file flashed at the current
\* chip's bootloader offset, payload bytes 2 and 3 are the high and the low
\* byte of flash_params, for every value of flash_params.
C11_ParamsPatchedAlways ==
  \A d \in BootBlocks :
    Len(PayloadOf(d)) >= 4 =>
      /\ PayloadOf(d)[3] = (flash_params \div 256) % 256
      /\ PayloadOf(d)[4] = flash_params % 256

\* C11 (amended): in the first block of a file flashed at the current chip's
\* bootloader offset, each of the payload bytes 2 and 3 that the block has
\* is the high, respectively low, byte of flash_params when flash_params is
\* not zero, and the byte of the file when flash_params is zero.
C11_ParamsPatched ==
  \A d \in BootBlocks :
    LET file == fopen(FileAt(BeginOf(d)).path).data
        want == <<0, 0, (flash_params \div 256) % 256, flash_params % 256>>
    IN  \A k \in {3, 4} :
          k <= Len(PayloadOf(d)) =>
            PayloadOf(d)[k] = IF flash_params # 0 THEN want[k] ELSE file[k]

\* C11 witness: without -fp, the parameters 0x0220 read from flash have
\* replaced bytes 2 and 3 of the first block of a bootloader image.
C11_Witness ==
  /\ fpar = "" /\ flash_params = 544
  /\ \E d \in BootBlocks :
       LET file == fopen(FileAt(BeginOf(d)).path).data
       IN  /\ Len(PayloadOf(d)) >= 4
           /\ PayloadOf(d)[3] = 2 /\ PayloadOf(d)[4] = 32
           /\ file[3] # 2 /\ file[4] # 32

\* The requests of the trace that returned a non-zero value (a timeout or
\* an error status).
CmdFailedIdx ==
  {k \in CmdIdx : k < Len(trace) /\ trace[k + 1].k = "ret" /\ trace[k + 1].a # 0}

\* C12: every error is fatal.  Once a request of the session (none of them
\* is a SYNC of the connection attempts) has timed out or returned an error
\* status, no further request is sent and the program does not end with
\* exit status 0.
C12_EveryErrorFatal ==
  \A k \in CmdFailedIdx :
    /\ \A x \in CmdIdx : x <= k
    /\ pc # "exit_success"

\* ---- observers of a monitor run
\* The serial bytes monitor() has read so far.
MonConsumed == SubSeq(input, 1, nsent - Len(wire))

\* The bytes of a stream that lie outside its frames, the delimiters left
\* out: a delimiter toggles between passthrough (mode 0) and frame (mode 1).
RECURSIVE PassthroughOf(_, _)
PassthroughOf(bytes, mode) ==
  IF bytes = <<>> THEN <<>>
  ELSE IF Head(bytes) = END THEN PassthroughOf(Tail(bytes), 1 - mode)
  ELSE (IF mode = 0 THEN <<Head(bytes)>> ELSE <<>>) \o PassthroughOf(Tail(bytes), mode)

\* C13: in monitor mode with the UDP socket open, every frame with a
\* non-empty payload assembled from the serial bytes has been sent as one
\* datagram whose bytes are the decoded payload: the datagrams sent are the
\* frames assembled, in order.
C13_FramesForwarded == (pc # "main_monitor" /\ sock > 0) => dgrams = pkts

\* C14: in monitor mode the bytes written to standard output are the serial
\* bytes read in passthrough mode, in arrival order, and neither a frame
\* delimiter nor a payload byte.
C14_StdoutIsPassthrough == stdout = PassthroughOf(MonConsumed, 0)

\* C15: once a signal is recorded the loop test starts no further call of
\* monitor(); the program leaves the loop with exit status 0 only after a
\* signal was recorded and after closing the serial handle, and otherwise
\* only through the failure on a closed serial line.
C15_SignalEndsLoop ==
  /\ [](pc = "exit_success" =>
          s_signo # 0 /\ trace # <<>> /\ trace[Len(trace)] = Ev("close", 0))
  /\ [](pc = "exit_failure" => closed /\ err = "Serial line closed")
  /\ [][(pc = "monitor_loop" /\ s_signo # 0) => pc' # "monitor"]_vars
  /\ [][(pc = "monitor" /\ pc' = "exit_success") => FALSE]_vars

\* C15 witness: SIGTERM was recorded after console output had been
\* written; the loop has ended, the handle is closed, the exit status is 0.
C15_Witness ==
  /\ pc = "exit_success"
  /\ s_signo = 15
  /\ stdout # <<>>
  /\ trace[Len(trace)] = Ev("close", 0)

\* The line events the trace ends with are those of hard_reset: DTR low,
\* RTS high, 100 ms, RTS low.
EndsWithHardReset ==
  /\ Len(trace) >= Len(hard_reset)
  /\ SubSeq(trace, Len(trace) - Len(hard_reset) + 1, Len(trace)) = hard_reset

\* C16: when the info command has ended after a successful connect, the
\* last thing it did on the serial line is the hard-reset sequence, for
\* every chip descriptor of the registry.
C16_InfoEndsWithReset == pc = "exit_success" => EndsWithHardReset

\* ---- observers of the reset rotation
\* The recipes of a build in the order of the rotation.
Recipes(plat) ==
  IF plat = "win32"
  THEN << reset_to_bootloader_usb_jtag_serial,
          reset_to_bootloader(50), reset_to_bootloader(100) >>
  ELSE << reset_to_bootloader_usb_jtag_serial,
          unix_tight_reset_to_bootloader(50), unix_tight_reset_to_bootloader(100),
          reset_to_bootloader(50), reset_to_bootloader(100) >>
\* The calls of reset_strategy that have run to their end, in order.
CallsDone == {k \in ResetCalls : k # LastResetCall \/ ResetPending = <<>>}
\* The line operations carried out by the call that started at index k.
OpsOfCall(k) ==
  LET later == {m \in ResetCalls : m > k}
      stop == IF later = {} THEN Len(trace) + 1
              ELSE CHOOSE m \in later : \A x \in later : m <= x
  IN  SubSeq(trace, k + 1, stop - 1)

\* C17: with cycle_length 5 on Unix and 3 on Windows, the n-th call of
\* reset_strategy selects recipe (n - 1) mod cycle_length of the build's
\* rotation and carries out exactly its line operations, so that after N
\* calls every recipe has been executed at least floor(N / cycle_length)
\* times.
C17_ResetRotation ==
  LET cycle == IF platform = "win32" THEN 3 ELSE 5
      done == CallsDone
      N == Cardinality(done)
  IN  /\ Len(Recipes(platform)) = cycle
      /\ \A k \in ResetCalls :
           trace[k].a = (Cardinality({m \in ResetCalls : m <= k}) - 1) % cycle
      /\ \A k \in done : OpsOfCall(k) = Recipes(platform)[trace[k].a + 1]
      /\ \A r \in 1..cycle :
           Cardinality({k \in done : OpsOfCall(k) = Recipes(platform)[r]}) >= N \div cycle

\* C17 witness: eleven calls have been made on Unix: the counter has
\* wrapped twice and the first recipe has been executed three times.
C17_Witness ==
  /\ platform = "unix"
  /\ Cardinality(CallsDone) = 11
  /\ Cardinality({k \in CallsDone :
                    OpsOfCall(k) = reset_to_bootloader_usb_jtag_serial}) = 3

\* ---- observers of the FLASH_DATA request
\* The exclusive or of two bytes, bit by bit.
XorByte(a, b) ==
  LET bit(x, n) == (x \div (2 ^ n)) % 2
      w(n) == IF bit(a, n) # bit(b, n) THEN 2 ^ n ELSE 0
  IN  w(0) + w(1) + w(2) + w(3) + w(4) + w(5) + w(6) + w(7)
RECURSIVE XorAll(_, _)
XorAll(v, s) ==
  IF s = <<>> THEN v
  ELSE CHOOSE r \in {XorAll(x, Tail(s)) : x \in {XorByte(v, Head(s))}} : TRUE

\* C18: in every FLASH_DATA request the payload is what follows the 8-byte
\* header and the 16-byte prefix; the checksum field of the header is 0xEF
\* XORed with every payload byte and with nothing of the prefix; the prefix
\* is the four little-endian words [payload length, sequence number, 0, 0];
\* the length field of the header is 16 + payload length.
C18_FlashDataChecksum ==
  \A d \in OpIdx(3) :
    LET req == cmd_request(trace[d])
        payload == SubSeq(req, 25, Len(req))
        n == Len(payload)
    IN  /\ req[1] = 0 /\ req[2] = 3
        /\ u32(SubSeq(req, 5, 8)) = XorAll(239, payload)
        /\ u32(SubSeq(req, 9, 12)) = n
        /\ u32(SubSeq(req, 13, 16)) = SeqOf(d)
        /\ SubSeq(req, 17, 24) = <<0, 0, 0, 0, 0, 0, 0, 0>>
        /\ req[3] + 256 * req[4] = 16 + n
        /\ payload = PayloadOf(d)

\* C18 witness: a patched first block of a bootloader has been sent; its
\* checksum is that of the patched bytes and differs from the checksum of
\* the bytes of the file and from the checksum taken over the prefix too.
C18_Witness ==
  \E d \in BootBlocks :
    LET file == fopen(FileAt(BeginOf(d)).path).data
        payload == PayloadOf(d)
    IN  /\ payload # SubSeq(file, 1, Len(payload))
        /\ trace[d].cs = XorAll(239, payload)
        /\ trace[d].cs # XorAll(239, SubSeq(file, 1, Len(payload)))
        /\ trace[d].cs # XorAll(239, trace[d].d)

\* C19: a read() of the closed, drained serial line inside cmd() or inside
\* monitor() ends the session with "Serial line closed" and a failure exit
\* status: that step records no return of the pending request and writes
\* nothing; a session that has failed so has failed at end of file with no
\* result reported for the request that was pending; and a failed session
\* sends nothing more and stays failed.
C19_EofFailsSession ==
  /\ [][ ( /\ closed /\ wire = <<>>
           /\ cst = "wait" \/ pc = "monitor"
           /\ pc' # pc \/ cst' # cst )
         => ( /\ pc' = "exit_failure" /\ err' = "Serial line closed"
              /\ trace' = trace /\ uart' = uart
              /\ stdout' = stdout /\ dgrams' = dgrams ) ]_vars
  /\ [] ( err = "Serial line closed"
            => /\ pc = "exit_failure" /\ closed /\ wire = <<>>
               /\ \A k \in CmdIdx :
                    (k = Len(trace)) \/ (k + 1 \in CmdIdx) \/ trace[k + 1].k = "ret" )
  /\ [][ pc = "exit_failure" => UNCHANGED <<pc, err, trace, uart, stdout, dgrams>> ]_vars

\* C19 witness: the line was closed while the second request of a session
\* was pending; the session has failed and the request has no result.
C19_Witness ==
  /\ err = "Serial line closed" /\ pc = "exit_failure"
  /\ Cardinality(CmdIdx) = 2
  /\ trace[Len(trace)].k = "cmd"
  /\ \E k \in CmdIdx : CmdOk(k)

\* C20: for a start address above 0xFFFF and any bytes, unhex of the text
\* mkhex prints for the pair creates exactly one file, named by the start
\* address, that holds the bytes.
C20_HexRoundTrip ==
  (pc = "exit_success" /\ flash_offset > 65535)
    => /\ disk.list = <<flash_offset>>
       /\ disk.data = <<fp>>

\* ---- observers of the text mkhex has printed
\* The records of the text: type, length, 16-bit offset and data bytes of
\* each line.
HexRecords ==
  LET lines == unhex_split(stdout)
  IN  [m \in 1..Len(lines) |->
         [type |-> hex_to_ul(SubSeq(lines[m], 8, 9)),
          len |-> hex_to_ul(SubSeq(lines[m], 2, 3)),
          lower |-> hex_to_ul(SubSeq(lines[m], 4, 7)),
          data |-> unhex_bytes(SubSeq(lines[m], 10, Len(lines[m]) - 2))]]
\* The absolute address of the first byte of the data record at index m:
\* the start address plus the bytes of the data records before it.
RECURSIVE HexLenBefore(_, _)
HexLenBefore(recs, m) ==
  IF m <= 1 THEN 0
  ELSE HexLenBefore(recs, m - 1) + (IF recs[m - 1].type = 0 THEN recs[m - 1].len ELSE 0)

\* C21: in the text mkhex has printed, every data record has a type-4
\* record before it, and the last type-4 record before it carries the
\* upper 16 bits of the absolute address of its first byte; a data record
\* carries at most 16 bytes; exactly one type-1 record is printed and it is
\* the last line.
C21_UpperAddressRecords ==
  pc # "mkhex" =>
    LET recs == HexRecords
        n == Len(recs)
    IN  /\ \A m \in 1..n :
             recs[m].type = 0 =>
               LET his == {h \in 1..(m - 1) : recs[h].type = 4}
                   abs == flash_offset + HexLenBefore(recs, m)
               IN  /\ his # {}
                   /\ LET h == CHOOSE x \in his : \A y \in his : y <= x
                      IN  recs[h].data = <<(abs \div 16777216) % 256, (abs \div 65536) % 256>>
                   /\ recs[m].len <= 16
                   /\ recs[m].len = Len(recs[m].data)
        /\ {m \in 1..n : recs[m].type = 1} = {n}

\* C22: for a start address that is a multiple of 0x10000 and a file of 1
\* to 16 bytes mkhex prints exactly three lines: a type-4 record with the
\* upper 16 bits of the address, a data record at offset 0000 with the
\* bytes, and the type-1 record.
C22_ThreeLines ==
  (pc # "mkhex" /\ flash_offset % 65536 = 0 /\ Len(fp) \in 1..16) =>
    LET recs == HexRecords
    IN  /\ Len(recs) = 3
        /\ recs[1].type = 4
        /\ recs[1].data = <<(flash_offset \div 16777216) % 256, (flash_offset \div 65536) % 256>>
        /\ recs[2].type = 0 /\ recs[2].lower = 0 /\ recs[2].data = fp
        /\ recs[3].type = 1 /\ recs[3].len = 0

\* ---- observers of the files unhex has created
\* The contiguous runs of the data records of recs, in order, each with its
\* start address and its bytes.  A run ends where the absolute address of
\* the next data record (the upper half of the last type-4 record before
\* it, plus its offset) is not the address after the last byte written;
\* with eofBreaks, a run also ends at a type-1 record.
RECURSIVE HexRuns(_, _, _)
HexRuns(recs, acc, eofBreaks) ==
  IF recs = <<>> THEN acc.runs
  ELSE LET r == Head(recs)
           addr == acc.upper + r.lower
           n == Len(acc.runs)
           new == n = 0 \/ addr # acc.cursor \/ (eofBreaks /\ ~acc.open)
           next ==
             IF r.type = 4
             THEN [acc EXCEPT !.upper = 65536 * (256 * r.data[1] + r.data[2])]
             ELSE IF r.type = 1 THEN [acc EXCEPT !.open = FALSE]
             ELSE IF r.type # 0 THEN acc
             ELSE [acc EXCEPT
                     !.runs = IF new THEN Append(acc.runs, [start |-> addr, data |-> r.data])
                              ELSE [acc.runs EXCEPT ![n].data = acc.runs[n].data \o r.data],
                     !.cursor = addr + r.len,
                     !.open = TRUE]
       IN  CHOOSE out \in {HexRuns(Tail(recs), x, eofBreaks) : x \in {next}} : TRUE
NoRuns == [runs |-> <<>>, upper |-> 0, cursor |-> 0, open |-> FALSE]
\* What the file named by address a holds: what was written since it was
\* last opened.
FileContent(a) ==
  LET ks == {k \in 1..Len(disk.list) : disk.list[k] = a}
  IN  disk.data[CHOOSE k \in ks : \A x \in ks : x <= k]

\* C23 (as stated): unhex creates exactly one file per contiguous address
\* run of the data records: the names it lists are the start addresses of
\* the runs, in order, the files are distinct and each holds the bytes of
\* its run.
C23_OneFilePerRunAsStated ==
  pc = "exit_success" =>
    LET runs == HexRuns(HexRecords, NoRuns, FALSE)
    IN  /\ disk.list = [k \in 1..Len(runs) |-> runs[k].start]
        /\ \A k, m \in 1..Len(runs) : k # m => runs[k].start # runs[m].start
        /\ \A k \in 1..Len(runs) : FileContent(runs[k].start) = runs[k].data

\* C23 (amended): a data record starts a new file if and only if no file is
\* open (no data record was processed yet, or a type-1 record came since
\* the last one) or its absolute address is not the address after the last
\* byte written.  unhex lists one name per such run, the run's start
\* address, in order; the file of a name holds the bytes of the last run
\* that starts at that address.
C23_OneFilePerRun ==
  pc = "exit_success" =>
    LET runs == HexRuns(HexRecords, NoRuns, TRUE)
        last(k) == \A m \in 1..Len(runs) : runs[m].start = runs[k].start => m <= k
    IN  /\ disk.list = [k \in 1..Len(runs) |-> runs[k].start]
        /\ \A k \in 1..Len(runs) : last(k) => FileContent(runs[k].start) = runs[k].data

\* C23 witness: unhex has processed a file of three data records, the
\* second contiguous with the first, the third not, and has created two
\* files.
C23_Witness ==
  /\ pc = "exit_success"
  /\ Len(HexRecords) = 4
  /\ disk.list = <<0, 65534>>
  /\ disk.data = <<<<170, 187, 204, 221>>, <<17, 34>>>>

\* ---- observers of the image mkbin has written
\* The segments of an image, read back from its bytes: from position pos
\* (1-based), k records of load address, size and `size` bytes.
RECURSIVE ImageSegments(_, _, _)
ImageSegments(img, pos, k) ==
  IF k = 0 THEN <<>>
  ELSE LET size == u32(SubSeq(img, pos + 4, pos + 7))
           seg == [addr |-> u32(SubSeq(img, pos, pos + 3)),
                   data |-> SubSeq(img, pos + 8, pos + 7 + size),
                   end |-> pos + 7 + size]
       IN  <<seg>> \o ImageSegments(img, pos + 8 + size, k - 1)
RECURSIVE ConcatAll(_)
ConcatAll(ss) == IF ss = <<>> THEN <<>> ELSE Head(ss) \o ConcatAll(Tail(ss))

\* C24: the image mkbin has written ends with the checksum byte as the last
\* byte of a 16-byte row (the file length is a multiple of 16); every byte
\* between the end of the last segment and the checksum is zero; the
\* checksum is 0xEF XORed with every byte of every segment's payload, the
\* padding not included; each segment of the image is the payload followed
\* by zeros up to a multiple of four.
C24_ImageTail ==
  pc = "exit_success" =>
    LET n == Len(bin)
        nseg == bin[2]
        segs == ImageSegments(bin, 25, nseg)
        last == IF nseg = 0 THEN 24 ELSE segs[nseg].end
        inTable == \A k \in 1..Len(trace) : trace[k].a < Len(elf.phdrs)
        payloads == [k \in 1..Len(trace) |-> elf.phdrs[trace[k].a + 1].data]
    IN  /\ n % 16 = 0 /\ n >= 16
        /\ last < n /\ n - last <= 16
        /\ \A k \in (last + 1)..(n - 1) : bin[k] = 0
        /\ bin[n] = XorAll(239, ConcatAll([k \in 1..nseg |-> segs[k].data]))
        /\ inTable =>
             /\ Len(payloads) = nseg
             /\ bin[n] = XorAll(239, ConcatAll(payloads))
             /\ \A k \in 1..nseg :
                  /\ SubSeq(segs[k].data, 1, Len(payloads[k])) = payloads[k]
                  /\ Len(segs[k].data) - Len(payloads[k]) \in 0..3
                  /\ \A x \in (Len(payloads[k]) + 1)..Len(segs[k].data) : segs[k].data[x] = 0

\* C24 witness: the image of an ELF with the segments "abcd" and "hello"
\* has been written: 64 bytes, eleven zeros before the checksum, which is
\* not the seed.
C24_Witness ==
  /\ pc = "exit_success"
  /\ [k \in 1..Len(elf.phdrs) |-> elf.phdrs[k].data]
       = <<<<97, 98, 99, 100>>, <<104, 101, 108, 108, 111>>>>
  /\ Len(bin) = 64
  /\ SubSeq(bin, 53, 63) = [k \in 1..11 |-> 0]
  /\ bin[64] = XorAll(239, <<97, 98, 99, 100, 104, 101, 108, 108, 111>>)
  /\ bin[64] # 239

\* The bytes of the stream the decoder has taken so far.
Consumed == SubSeq(input, 1, Len(input) - Len(wire))

\* C25: in every call of slip_recv the mode flag flips when the byte is the
\* delimiter 0xC0 and keeps its value for every other byte, in passthrough
\* and in packet mode alike and whatever the byte before was, the escape
\* byte 0xDB included.
C25_ModeToggles ==
  [][ (pc = "decode" /\ wire # <<>>) =>
        /\ Head(wire) = END => slip'.mode = 1 - slip.mode
        /\ Head(wire) # END => slip'.mode = slip.mode ]_vars

\* C25 witness: in packet mode the delimiter arrived directly after the
\* escape byte and the decoder is back in passthrough mode.
C25_Witness ==
  /\ Consumed = <<END, ESC, END>>
  /\ slip.prev = END
  /\ slip.mode = 0

\* slip_recv stores the byte it is given (or the byte an escape pair stands
\* for) exactly in these cases.
SlipStores(c, s) ==
  /\ s.mode = 1
  /\ \/ s.prev = ESC /\ c \in {ESC_END, ESC_ESC}
     \/ c \notin {END, ESC}

\* C26: on every byte stream the decoder's length never exceeds the
\* capacity, the buffer keeps the size it was given, and every call that
\* stores a byte stores it at the (zero-based) index len, which is below
\* the capacity, leaving every other buffer cell as it was.
C26_WithinCapacity ==
  /\ [](slip.len <= slip.size /\ Len(slip.buf) = slip.size)
  /\ [][ (pc = "decode" /\ wire # <<>>) =>
           /\ slip'.size = slip.size
           /\ IF SlipStores(Head(wire), slip)
              THEN /\ slip.len < slip.size
                   /\ \A k \in 1..slip.size : k # slip.len + 1 => slip'.buf[k] = slip.buf[k]
              ELSE slip'.buf = slip.buf ]_vars

\* C26 witness: a decoder of capacity two has stored two bytes in packet
\* mode, the second in its last cell, and is empty again.
C26_Witness ==
  /\ Consumed = <<END, 65, ESC_END>>
  /\ slip.size = 2
  /\ slip.buf = <<65, ESC_END>>
  /\ slip.len = 0
  /\ slip.mode = 1

\* The position of the last delimiter of stream s before position hi, or 0.
LastEnd(s, hi) ==
  LET ends == {k \in 1..(hi - 1) : s[k] = END}
  IN  IF ends = {} THEN 0 ELSE CHOOSE k \in ends : \A m \in ends : m <= k

\* The bytes of stream s between that delimiter and position hi.
FrameBefore(s, hi) == SubSeq(s, LastEnd(s, hi) + 1, hi - 1)

\* What the bytes of a frame stand for: 0xDB 0xDC is 0xC0, 0xDB 0xDD is
\* 0xDB, any other byte is itself.
RECURSIVE SlipPayload(_)
SlipPayload(f) ==
  IF f = <<>> THEN <<>>
  ELSE IF Len(f) >= 2 /\ f[1] = ESC /\ f[2] = ESC_END THEN <<END>> \o SlipPayload(SubSeq(f, 3, Len(f)))
  ELSE IF Len(f) >= 2 /\ f[1] = ESC /\ f[2] = ESC_ESC THEN <<ESC>> \o SlipPayload(SubSeq(f, 3, Len(f)))
  ELSE IF f[1] = ESC THEN SlipPayload(Tail(f))
  ELSE <<f[1]>> \o SlipPayload(Tail(f))

\* C27: (a) the call whose store makes the length reach the capacity
\* leaves the length at zero and reports nothing; (b) the delimiter that
\* closes a frame whose payload reached the capacity reports no packet;
\* (c) the delimiter that closes the next frame, when that frame's payload
\* is non-empty and below the capacity, reports exactly that payload.
C27_OverflowDropsFrame ==
  [][ (pc = "decode" /\ wire # <<>>) =>
        LET c == Head(wire)
            n == Len(Consumed)
            cur == FrameBefore(input, n + 1)
            closed_at == LastEnd(input, LastEnd(input, n + 1))
            before == FrameBefore(input, closed_at)
        IN  /\ (SlipStores(c, slip) /\ slip.len + 1 = slip.size) =>
                 slip'.len = 0 /\ pkts' = pkts
            /\ (slip.mode = 1 /\ c = END /\ Len(SlipPayload(cur)) >= slip.size) =>
                 pkts' = pkts
            /\ ( /\ slip.mode = 1 /\ c = END
                 /\ Len(SlipPayload(cur)) \in 1..(slip.size - 1)
                 /\ closed_at > 0
                 /\ Len(SlipPayload(before)) >= slip.size ) =>
                 pkts' = Append(pkts, SlipPayload(cur)) ]_vars

\* The decoder after every byte of `bytes` has been given to slip_recv, in
\* order, starting from decoder s.
RECURSIVE SlipFeed(_, _)
SlipFeed(bytes, s) ==
  IF bytes = <<>> THEN s
  ELSE CHOOSE t \in {SlipFeed(Tail(bytes), r.slip) : r \in {slip_recv(Head(bytes), s)}} : TRUE

\* The number of delimiters in a byte sequence.
EndCount(bytes) == Cardinality({k \in 1..Len(bytes) : bytes[k] = END})

\* C28: whenever cmd() takes bytes from the serial line, the decoder
\* afterwards is the decoder every one of those bytes has been fed to, once
\* and in arrival order, and its mode has flipped once per delimiter among
\* them; this includes the read that carries the accepted response.
C28_EveryByteFed ==
  [][ (cst = "wait" /\ Len(wire') < Len(wire)) =>
        LET got == SubSeq(wire, 1, Len(wire) - Len(wire'))
        IN  /\ slip' = SlipFeed(got, slip)
            /\ slip'.mode = (slip.mode + EndCount(got)) % 2 ]_vars

\* A frame as slip_send writes it: a delimiter, at least one byte that is
\* not a delimiter, a delimiter.
WellFormedFrame(b) ==
  /\ Len(b) >= 3
  /\ b[1] = END /\ b[Len(b)] = END
  /\ \A k \in 2..(Len(b) - 1) : b[k] # END

\* C29: (a) when cmd() reads a well-formed frame while the decoder is in
\* packet mode with nothing assembled, no packet is reported for the frame,
\* cmd() keeps waiting, and the decoder is in packet mode with nothing
\* assembled afterwards; (b) every step of chip_connect and cmd that does
\* not take bytes from the serial line (starting a request, resetting the
\* chip, flushing, returning, trying again) leaves the decoder, its mode
\* included, as it was.
C29_NeverResynchronises ==
  [][ /\ ( /\ cst = "wait" /\ Len(wire') < Len(wire)
           /\ slip.mode = 1 /\ slip.len = 0
           /\ WellFormedFrame(SubSeq(wire, 1, Len(wire) - Len(wire'))) ) =>
             /\ frames' = frames
             /\ cst' = "wait"
             /\ slip'.mode = 1 /\ slip'.len = 0
      /\ ~(cst = "wait" /\ Len(wire') < Len(wire)) => slip' = slip ]_vars

\* C29 witness: chip_connect has given up after its last SYNC attempt with
\* the decoder in packet mode; the decoder has stored nothing at all, and
\* the last byte it saw is the closing delimiter of an answer.
C29_Witness ==
  /\ pc = "connect_false"
  /\ j = connect_rounds
  /\ slip.mode = 1 /\ slip.len = 0
  /\ slip.prev = END
  /\ \A k \in 1..slip.size : slip.buf[k] = 0

\* C30: when cmd() has returned with an accepted response, the value it
\* returned is 0 exactly when the byte it takes as the status flag is zero
\* or the byte after it is zero, and is that following byte otherwise; a
\* non-zero flag followed by a zero code is therefore returned as 0.  When
\* it has returned without an accepted response (iowait came back without
\* the serial line) the value is 1, the value it also returns for a
\* response carrying the error code 1.
C30_SuccessIffZero ==
  cst = "ret" =>
    IF taken = <<>> THEN cret = 1
    ELSE LET r == Len(taken)
             eofs == IF chip.id \in {CHIP_ID_NONE, CHIP_ID_ESP8266} THEN r - 2 ELSE r - 4
             flag == taken[eofs + 1]
             code == taken[eofs + 2]
         IN  /\ cret = 0 <=> (flag = 0 \/ code = 0)
             /\ cret # 0 => cret = code
             /\ trace[Len(trace)] = Ev("ret", cret)

\* C30 witness: cmd() has returned 1 for an accepted response whose status
\* tail is flag 1, error code 1, the value a timeout returns.
C30_Witness ==
  /\ cst = "ret"
  /\ cret = 1
  /\ taken = resp(1, cop, CHIP_ID_NONE, <<1, 1>>)
  /\ chip.id = CHIP_ID_ESP8266
  /\ trace[Len(trace)] = Ev("ret", 1)

\* C31: whenever flash() is at the head of its argument loop, the loop is
\* eventually left: FLASH_END is sent (or the program has exited through
\* fail() on the way, in flashbin or in a failed request).
C31_ArgumentLoopTerminates ==
  (pc = "flash_args") ~> (pc \in {"flash_end", "exit_failure", "exit_success"})

\* C32: when mkbin is over, every program header it has read has an index
\* in [0, e_phnum), also when the first program header is empty; and when
\* it has written the image, it has written one segment per header read,
\* as many as the common header declares.
C32_PhdrIndexInTable ==
  pc \in {"exit_success", "crash"} =>
    /\ \A k \in 1..Len(trace) :
         trace[k].a >= 0 /\ trace[k].a < Len(elf.phdrs)
    /\ pc = "exit_success" =>
         /\ Len(trace) = bin[2]
         /\ bin[2] = Len(elf.phdrs)

====
